---- MODULE Spec2Model ----
(***************************************************************************)
(* A model of the core of tract: the symbolic dimension algebra (TDim),    *)
(* the pulse Delay operator, pulsification of Pad / Slice / Downsample,    *)
(* the ModelPatch graph surgery, the model Translator, the command line's   *)
(* stop-at-stage pipeline, the state of the Scan loop and the declutter    *)
(* of typed models.                                                        *)
(***************************************************************************)
EXTENDS Integers, Sequences, FiniteSets, TLC

VARIABLES
  dimA, dimB,      \* two TDim trees as built by the constructors (unreduced)
  redA, redB,      \* dimA.reduce(), dimB.reduce()
  opsA, opsB       \* number of constructors applied to each tree

varsDim == <<dimA, dimB, redA, redB, opsA, opsB>>

VARIABLES
  dlOp,            \* the Delay op: [pulse, delay, overlap] (axis 0, rank 1)
  dlBuffer,        \* DelayState.buffer
  dlCount,         \* number of eval calls made on the state
  dlOutput         \* the tensor returned by the last eval

varsDelay == <<dlOp, dlBuffer, dlCount, dlOutput>>

VARIABLES
  puOp,            \* the normalized op that is pulsified
  puFact,          \* the PulsedFact of the outlet it is fed by
  puLen,           \* the length of the stream
  puKnown,         \* SessionState.known_stream_len: <<>> or <<length>>
  puResult,        \* "none", then what pulsify returned: "ok" or "err";
                   \* "panic" once an eval has panicked
  puTarget,        \* the nodes pulsify wired in the target model
  puStates,        \* the op states of these nodes, "none" before they exist
  puCount,         \* number of pulses run
  puOut            \* the output pulses, concatenated along the stream axis

varsPulse == <<puOp, puFact, puLen, puKnown, puResult, puTarget, puStates, puCount, puOut>>

VARIABLES
  host,            \* the model patches are built against and applied to
  patch,           \* the ModelPatch under construction
  lastCall,        \* the latest call on the patch and what it returned
  calls,           \* number of calls made to build patches
  applies,         \* number of patches applied
  translated       \* what translate_model_with_mappings returned for host

varsGraph == <<host, patch, lastCall, calls, applies, translated>>

VARIABLES
  crOps,           \* the Slice and the Downsample of the model: [len, slice, down]
  crPatch,         \* <<>>, then <<ops wired by pull_downsample_over_slice>>
  crExpected,      \* <<>>, then <<output of the model as it was built>>
  crFound          \* <<>>, then <<output of the rewritten model>>

varsCrop == <<crOps, crPatch, crExpected, crFound>>

VARIABLES
  lwIn,            \* the integers an identity is built from: [c, k, q, p]
  lwLaw,           \* "none", then the identity whose two sides were built
  lwLeft,          \* <<>>, then <<the TDim built as the left-hand side>>
  lwRight          \* <<>>, then <<the TDim built as the right-hand side>>

varsLaws == <<lwIn, lwLaw, lwLeft, lwRight>>

VARIABLES
  buChecks,        \* whether the build checks integer overflow (debug profile)
  buTree,          \* <<the TDim built so far>>, <<>> once a constructor panicked
  buCount,         \* number of constructors applied
  buInt,           \* <<>>, then <<what to_integer returned on buTree>>
  buEval           \* <<>>, then <<the map given to eval_with and its result>>

varsBuild == <<buChecks, buTree, buCount, buInt, buEval>>

VARIABLES
  tdIn,            \* the pulse and the two delays: [pulse, d1, d2]
  tdChain,         \* the nodes of the model of two Delays in a row
  tdStates,        \* the states of these two nodes
  tdSingle,        \* the node of the model of one Delay of d1 + d2
  tdState,         \* the state of that node
  tdCount,         \* number of pulses run on the two Delays
  tdRuns,          \* number of pulses run on the single Delay
  tdOut,           \* the last output of the two Delays
  tdOne            \* the last output of the single Delay

varsTwo == <<tdIn, tdChain, tdStates, tdSingle, tdState, tdCount, tdRuns, tdOut, tdOne>>

VARIABLES
  piArgs,          \* the command line: [pass, optimize, pulse], <<>> for an absent option
  piDone,          \* the stages run so far, in order
  piReturn         \* <<>>, then what the pipeline returned: <<"Ok", stage>> or <<"Err", stage>>

varsPipe == <<piArgs, piDone, piReturn>>

VARIABLES
  scOp,            \* the LirScanOpParams: [skip, backward, input_mapping, output_mapping]
  scCalls,         \* the inputs of the evals made on the state, in order
  scPosition,      \* MutableState.position
  scHidden,        \* MutableState.hidden_state
  scLog,           \* the iterations that ran the body: [eval, i, inputs, outputs]
  scOutputs,       \* the tensors the last eval returned
  scResult         \* "none", then what the last eval returned: "ok", "err" or "panic"

varsScan == <<scOp, scCalls, scPosition, scHidden, scLog, scOutputs, scResult>>

VARIABLES
  deModel,         \* the typed model: Pad, Slice and Downsample nodes on a source
  deStatus,        \* "building", then "running", "done" or "err"
  dePatches,       \* the patches the current declutter run has applied
  deRuns,          \* the declutter runs that have ended
  deFirst          \* the model the first declutter run ended on

varsDeclutter == <<deModel, deStatus, dePatches, deRuns, deFirst>>

vars == <<varsDim, varsDelay, varsPulse, varsGraph, varsCrop, varsLaws, varsBuild, varsTwo, varsPipe, varsScan, varsDeclutter>>

(***************************************************************************)
(* Generic helpers                                                         *)
(***************************************************************************)
Abs(x) == IF x < 0 THEN -x ELSE x

Min(a, b) == IF a <= b THEN a ELSE b

Max(a, b) == IF a >= b THEN a ELSE b

\* i32 `/` of Rust: the quotient truncated towards zero (q > 0)
TruncDiv(a, q) == IF a >= 0 THEN a \div q ELSE (a + (q - 1)) \div q

\* num_integer::Integer::div_ceil on i32 (q > 0)
IntDivCeil(a, q) == IF a <= 0 THEN TruncDiv(a, q) ELSE -((-a) \div q)

RECURSIVE Gcd(_, _)
\* num_integer::Integer::gcd on non-negative operands
Gcd(a, b) == IF b = 0 THEN a ELSE Gcd(b, a % b)

\* usize::saturating_sub
SatSub(a, b) == IF a >= b THEN a - b ELSE 0


\* the range of i32 (TDim::Val, the factor of TDim::Mul)
I32Max == 2147483647

I32Min == (-I32Max) - 1

\* whether a + b leaves the range of i32
AddOverflows(a, b) ==
  \/ b > 0 /\ a > I32Max - b
  \/ b < 0 /\ a < I32Min - b

\* i32::wrapping_add: what `+` gives when overflow is not checked
WrappingAdd(a, b) ==
  IF b > 0 /\ a > I32Max - b THEN ((a - I32Max) + (b - I32Max)) - 2
  ELSE IF b < 0 /\ a < I32Min - b THEN (a - I32Min) + (b - I32Min)
  ELSE a + b

\* whether p * v leaves the range of i32
MulOverflows(p, v) ==
  IF p = 0 \/ v = 0 THEN FALSE
  ELSE IF p = I32Min THEN v # 1
  ELSE IF v = I32Min THEN p # 1
  ELSE IF (p > 0) = (v > 0) THEN Abs(v) > I32Max \div Abs(p)
  ELSE /\ Abs(v) > I32Max \div Abs(p)
       /\ ~(Abs(v) = (I32Max \div Abs(p)) + 1 /\ I32Max % Abs(p) = Abs(p) - 1)

\* i32::wrapping_neg
WrappingNeg(a) == IF a = I32Min THEN I32Min ELSE -a

RECURSIVE WrappingTimes(_, _)
\* x added n times to 0 with wrapping_add (n >= 0)
WrappingTimes(n, x) == IF n = 0 THEN 0 ELSE WrappingAdd(WrappingTimes(n - 1, x), x)

\* i32::wrapping_mul: what `*` gives when overflow is not checked; the
\* product is computed from the operand of smaller magnitude
WrappingMul(p, v) ==
  IF p = 0 \/ v = 0 THEN 0
  ELSE IF p = I32Min THEN (IF v % 2 = 0 THEN 0 ELSE I32Min)
  ELSE IF v = I32Min THEN (IF p % 2 = 0 THEN 0 ELSE I32Min)
  ELSE LET n == IF Abs(p) <= Abs(v) THEN p ELSE v
           x == IF Abs(p) <= Abs(v) THEN v ELSE p
       IN IF n < 0 THEN WrappingNeg(WrappingTimes(-n, x)) ELSE WrappingTimes(n, x)
(***************************************************************************)
(* TDim: src/core/src/dim/tree.rs                                          *)
(* A tree is a tuple whose first element is the variant name.              *)
(***************************************************************************)
Sym == <<"Sym", "S">>

Val(v) == <<"Val", v>>

Add(terms) == <<"Add", terms>>

Mul(p, a) == <<"Mul", p, a>>

Div(a, q) == <<"Div", a, q>>

IsSym(e) == e[1] = "Sym"

IsVal(e) == e[1] = "Val"

IsAdd(e) == e[1] = "Add"

IsMul(e) == e[1] = "Mul"

IsDiv(e) == e[1] = "Div"

\* the value a panicking call would have produced (TDim::div on a Sym, an
\* integer overflow in a build that checks them)
Panicked == <<"Sym", "panic">>

RECURSIVE HasPanic(_)
\* whether a panic happened while the tree was computed
HasPanic(e) ==
  CASE e = Panicked -> TRUE
    [] IsSym(e) \/ IsVal(e) -> FALSE
    [] IsAdd(e) -> \E i \in DOMAIN e[2] : HasPanic(e[2][i])
    [] IsDiv(e) -> HasPanic(e[2])
    [] IsMul(e) -> HasPanic(e[3])

\* i32 `+`: <<sum>>, wrapped on overflow, or <<>> when the build checks
\* overflows and panics
I32Add(a, b) ==
  IF ~AddOverflows(a, b) THEN <<a + b>>
  ELSE IF buChecks THEN <<>>
  ELSE <<WrappingAdd(a, b)>>

\* i32 `*`, likewise
I32Mul(p, v) ==
  IF ~MulOverflows(p, v) THEN <<p * v>>
  ELSE IF buChecks THEN <<>>
  ELSE <<WrappingMul(p, v)>>

\* i32 unary `-`, likewise
I32Neg(v) ==
  IF v # I32Min THEN <<-v>>
  ELSE IF buChecks THEN <<>>
  ELSE <<I32Min>>

\* Val(product) of a product that may have panicked
ValOf(product) == IF product = <<>> THEN Panicked ELSE Val(product[1])

\* Mul(product, a) of a product that may have panicked
MulOf(product, a) == IF product = <<>> THEN Panicked ELSE Mul(product[1], a)

\* Val(p * p2)
ValMul(p, v) == ValOf(I32Mul(p, v))

\* Mul(p * p2, a)
MulMul(p, p2, a) == MulOf(I32Mul(p, p2), a)

\* position of the variant in the enum declaration, which #[derive(Ord)] uses
VariantIx(e) ==
  CASE IsSym(e) -> 0
    [] IsVal(e) -> 1
    [] IsAdd(e) -> 2
    [] IsMul(e) -> 3
    [] IsDiv(e) -> 4

CmpInt(a, b) == IF a < b THEN -1 ELSE IF a > b THEN 1 ELSE 0

RECURSIVE Cmp(_, _)
RECURSIVE CmpSeq(_, _)
\* #[derive(Ord)] on TDim: variant first, then the fields in order
Cmp(a, b) ==
  IF VariantIx(a) # VariantIx(b) THEN CmpInt(VariantIx(a), VariantIx(b))
  ELSE CASE IsSym(a) -> IF a[2] = b[2] THEN 0 ELSE IF a[2] = "S" THEN -1 ELSE 1
         [] IsVal(a) -> CmpInt(a[2], b[2])
         [] IsAdd(a) -> CmpSeq(a[2], b[2])
         [] IsMul(a) -> IF a[2] # b[2] THEN CmpInt(a[2], b[2]) ELSE Cmp(a[3], b[3])
         [] IsDiv(a) -> IF Cmp(a[2], b[2]) # 0 THEN Cmp(a[2], b[2]) ELSE CmpInt(a[3], b[3])

\* Ord on Vec<TDim>: lexicographic, a strict prefix is smaller
CmpSeq(s, t) ==
  IF s = <<>> THEN (IF t = <<>> THEN 0 ELSE -1)
  ELSE IF t = <<>> THEN 1
  ELSE IF Cmp(Head(s), Head(t)) # 0 THEN Cmp(Head(s), Head(t))
  ELSE CmpSeq(Tail(s), Tail(t))

RECURSIVE SortSet(_)
\* the elements of a set in increasing Ord order (sort of distinct elements)
SortSet(S) ==
  IF S = {} THEN <<>>
  ELSE LET m == CHOOSE x \in S : \A y \in S : Cmp(x, y) <= 0
       IN <<m>> \o SortSet(S \ {m})

SeqToSet(s) == {s[i] : i \in DOMAIN s}

RECURSIVE EvalWith(_, _)
\* TDim::eval_with with S bound to s
EvalWith(e, s) ==
  CASE IsSym(e) -> s
    [] IsVal(e) -> e[2]
    [] IsAdd(e) -> IF e[2] = <<>> THEN 0
                   ELSE EvalWith(Head(e[2]), s) + EvalWith(Add(Tail(e[2])), s)
    [] IsDiv(e) -> TruncDiv(EvalWith(e[2], s), e[3])
    [] IsMul(e) -> e[2] * EvalWith(e[3], s)

RECURSIVE HasSym(_)
\* eval_with fails (to_integer is Err) exactly when a Sym is met
HasSym(e) ==
  CASE IsSym(e) -> TRUE
    [] IsVal(e) -> FALSE
    [] IsAdd(e) -> \E i \in DOMAIN e[2] : HasSym(e[2][i])
    [] IsDiv(e) -> HasSym(e[2])
    [] IsMul(e) -> HasSym(e[3])

RECURSIVE TryEvalWith(_, _)
RECURSIVE TryFold(_, _, _)
\* TDim::eval_with on a map of symbols to integers (a function whose domain
\* holds the bound symbols): <<"Ok", v>>, <<"Err">> for an unresolved
\* symbol, <<"Panic">> for an overflow in a build that checks them
TryEvalWith(e, values) ==
  CASE IsSym(e) -> IF e[2] \in DOMAIN values THEN <<"Ok", values[e[2]]>> ELSE <<"Err">>
    [] IsVal(e) -> <<"Ok", e[2]>>
    [] IsAdd(e) -> TryFold(e[2], values, 0)
    [] IsDiv(e) -> LET a == TryEvalWith(e[2], values)
                   IN IF a[1] # "Ok" THEN a ELSE <<"Ok", TruncDiv(a[2], e[3])>>
    [] IsMul(e) -> LET a == TryEvalWith(e[3], values)
                   IN IF a[1] # "Ok" THEN a
                      ELSE IF I32Mul(e[2], a[2]) = <<>> THEN <<"Panic">>
                      ELSE <<"Ok", I32Mul(e[2], a[2])[1]>>

\* terms.iter().try_fold(0i32, |acc, it| Ok(acc + it.eval_with(values)?))
TryFold(terms, values, acc) ==
  IF terms = <<>> THEN <<"Ok", acc>>
  ELSE LET it == TryEvalWith(Head(terms), values)
       IN IF it[1] # "Ok" THEN it
          ELSE IF I32Add(acc, it[2]) = <<>> THEN <<"Panic">>
          ELSE TryFold(Tail(terms), values, I32Add(acc, it[2])[1])

\* TDim::to_integer: eval_with(&hashmap!())
ToInteger(e) == TryEvalWith(e, <<>>)

\* TDim::is_stream
IsStream(e) == ToInteger(e)[1] = "Err"

RECURSIVE Cost(_)
RECURSIVE CostSum(_)
\* TDim::cost
Cost(e) ==
  CASE IsSym(e) \/ IsVal(e) -> 1
    [] IsAdd(e) -> 2 * CostSum(e[2])
    [] IsDiv(e) -> 3 * Cost(e[2])
    [] IsMul(e) -> 2 * Cost(e[3])

CostSum(ts) == IF ts = <<>> THEN 0 ELSE Cost(Head(ts)) + CostSum(Tail(ts))

RECURSIVE TGcd(_)
RECURSIVE TGcdFold(_, _)
\* TDim::gcd
TGcd(e) ==
  CASE IsVal(e) -> Abs(e[2])
    [] IsSym(e) -> 1
    [] IsAdd(e) -> TGcdFold(TGcd(Head(e[2])), Tail(e[2]))
    [] IsMul(e) -> TGcd(e[3]) * Abs(e[2])
    [] IsDiv(e) -> IF TGcd(e[2]) % e[3] = 0 THEN TGcd(e[2]) \div e[3] ELSE 1

TGcdFold(acc, ts) ==
  IF ts = <<>> THEN acc ELSE TGcdFold(Gcd(acc, TGcd(Head(ts))), Tail(ts))

RECURSIVE TDivBy(_, _)
\* TDim::div (private exact division by d)
TDivBy(e, d) ==
  IF d = 1 THEN e
  ELSE CASE IsVal(e) -> Val(TruncDiv(e[2], d))
         [] IsSym(e) -> Panicked
         [] IsAdd(e) -> Add([i \in DOMAIN e[2] |-> TDivBy(e[2][i], d)])
         [] IsMul(e) -> IF e[2] = d THEN e[3]
                        ELSE LET g == Gcd(Abs(e[2]), d)
                             IN Mul(TruncDiv(e[2], g), TDivBy(e[3], d \div g))
         [] IsDiv(e) -> Div(e[2], e[3] * d)

\* reduced.entry(k).or_insert(0) += v on the HashMap<TDim, i32> of simplify,
\* kept as a set of <<key, coefficient>> pairs
Bump(reduced, k, v) ==
  IF \E p \in reduced : p[1] = k
  THEN LET old == CHOOSE p \in reduced : p[1] = k
           sum == I32Add(old[2], v)
       IN IF sum = <<>> THEN (reduced \ {old}) \cup {<<Panicked, 1>>}
          ELSE (reduced \ {old}) \cup {<<k, sum[1]>>}
  ELSE reduced \cup {<<k, v>>}

\* the filter_map closure that rebuilds a member from a (key, coefficient) entry
Member(k, v) ==
  IF k = Val(1) THEN Val(v)
  ELSE IF v = 1 THEN k
  ELSE Mul(v, k)

\* index of the first Val among terms, 0 when there is none
FirstValIx(terms) ==
  IF \E i \in DOMAIN terms : IsVal(terms[i])
  THEN CHOOSE i \in DOMAIN terms :
         IsVal(terms[i]) /\ \A j \in 1..(i - 1) : ~IsVal(terms[j])
  ELSE 0

\* index of the first Div among terms, 0 when there is none
FirstDivIx(terms) ==
  IF \E i \in DOMAIN terms : IsDiv(terms[i])
  THEN CHOOSE i \in DOMAIN terms :
         IsDiv(terms[i]) /\ \A j \in 1..(i - 1) : ~IsDiv(terms[j])
  ELSE 0

\* the members rebuilt from the entries of non-zero coefficient, sorted
Members(reduced) ==
  SortSet({Member(p[1], p[2]) : p \in {r \in reduced : r[2] # 0}})

\* the end of simplify's Add arm: Val(0), the only member, or Add(members)
SumOf(members) ==
  IF Len(members) = 0 THEN Val(0)
  ELSE IF Len(members) > 1 THEN Add(members)
  ELSE members[1]

RECURSIVE Simplify(_)
RECURSIVE AddCollect(_, _)
RECURSIVE SimplifyMul(_, _)
RECURSIVE SimplifyDiv(_, _)
\* the `while let Some(item) = terms.pop()` loop of simplify's Add arm
AddCollect(terms, reduced) ==
  IF terms = <<>> THEN reduced
  ELSE LET rest == SubSeq(terms, 1, Len(terms) - 1)
           term == Simplify(terms[Len(terms)])
       IN CASE HasPanic(term) -> {<<Panicked, 1>>}
            [] IsAdd(term) -> AddCollect(rest \o term[2], reduced)
            [] IsVal(term) -> IF term[2] = 0 THEN AddCollect(rest, reduced)
                              ELSE AddCollect(rest, Bump(reduced, Val(1), term[2]))
            [] IsMul(term) -> AddCollect(rest, Bump(reduced, term[3], term[2]))
            [] OTHER -> AddCollect(rest, Bump(reduced, term, 1))

\* a Mul arm that keeps a product of a sum as it is
SimplifyMulKeepsSum(p, a) ==
  IF IsMul(a) THEN Simplify(MulMul(p, a[2], a[3]))
  ELSE IF IsVal(a) THEN ValMul(p, a[2])
  ELSE LET sa == Simplify(a)
       IN IF HasPanic(sa) THEN Panicked
          ELSE IF p = 0 THEN Val(0)
          ELSE IF p = 1 THEN sa
          ELSE IF IsVal(sa) THEN ValMul(p, sa[2])
          ELSE IF IsMul(sa) THEN MulMul(p, sa[2], sa[3])
          ELSE Mul(p, sa)

\* simplify's Mul(p, a) arm
SimplifyMul(p, a) ==
  IF IsMul(a) THEN Simplify(MulMul(p, a[2], a[3]))
  ELSE IF IsVal(a) THEN ValMul(p, a[2])
  ELSE LET sa == Simplify(a)
       IN IF HasPanic(sa) THEN Panicked
          ELSE IF p = 0 THEN Val(0)
          ELSE IF p = 1 THEN sa
          ELSE IF IsAdd(sa) THEN Add([i \in DOMAIN sa[2] |-> Simplify(Mul(p, sa[2][i]))])
          ELSE IF IsVal(sa) THEN ValMul(p, sa[2])
          ELSE IF IsMul(sa) THEN MulMul(p, sa[2], sa[3])
          ELSE Mul(p, sa)

\* the integer taken out of the quotient: v / q, or -((-v).div_ceil(q))
\* for a negative v; <<>> on a panic
DivOffset(v, q) ==
  IF v >= q THEN <<TruncDiv(v, q)>>
  ELSE IF I32Neg(v) = <<>> THEN <<>>
  ELSE <<-IntDivCeil(I32Neg(v)[1], q)>>

\* Add(Val(offset), Div(Add(terms + Val(-offset * q)).simplify(), q)), where
\* back is the product -offset * q
OffsetAndQuotient(terms, offset, back, q) ==
  IF back = <<>> THEN Panicked
  ELSE Add(<<Val(offset), Div(Simplify(Add(Append(terms, Val(back[1])))), q)>>)

\* terms.push(Val(-offset * q)) and the sum that follows
SplitOffset(terms, offset, q) ==
  IF offset = <<>> THEN Panicked
  ELSE OffsetAndQuotient(terms, offset[1], I32Mul(-offset[1], q), q)

\* simplify's Div arm on a sum whose first integer term is at ix (0: none)
SimplifyDivOfSum(terms, ix, q) ==
  IF ix = 0 THEN Div(Add(terms), q)
  ELSE IF terms[ix][2] >= q \/ terms[ix][2] < 0
       THEN SplitOffset(terms, DivOffset(terms[ix][2], q), q)
       ELSE Div(Add(terms), q)

\* simplify's Div(a, q) arm
SimplifyDiv(a, q) ==
  IF q = 1 THEN Simplify(a)
  ELSE IF IsDiv(a) THEN Simplify(Div(a[2], q * a[3]))
  ELSE LET sa == Simplify(a)
       IN IF HasPanic(sa) THEN Panicked
          ELSE IF IsVal(sa) THEN Val(TruncDiv(sa[2], q))
          ELSE IF IsMul(sa) /\ sa[2] = -1 THEN Mul(-1, Div(sa[3], q))
          ELSE IF IsAdd(sa) THEN SimplifyDivOfSum(sa[2], FirstValIx(sa[2]), q)
          ELSE IF IsMul(sa) THEN
            LET p == sa[2]
                x == sa[3]
                g == Gcd(Abs(p), q)
            IN IF p = q THEN Simplify(x)
               ELSE IF g = p THEN Div(x, q \div g)
               ELSE IF g = q THEN Mul(TruncDiv(p, g), x)
               ELSE IF g > 1 THEN Simplify(Div(Mul(TruncDiv(p, g), x), q \div g))
               ELSE Div(Mul(p, x), q)
          ELSE Div(sa, q)

\* TDim::simplify
Simplify(e) ==
  CASE IsAdd(e) -> SumOf(Members(AddCollect(e[2], {})))
    [] IsMul(e) -> SimplifyMul(e[2], e[3])
    [] IsDiv(e) -> SimplifyDiv(e[2], e[3])
    [] OTHER -> e

RECURSIVE Wiggle(_)
RECURSIVE WiggleProduct(_)
\* multi_cartesian_product of the wiggles of the terms of an Add
WiggleProduct(terms) ==
  IF terms = <<>> THEN {<<>>}
  ELSE {<<h>> \o t : h \in Wiggle(Head(terms)), t \in WiggleProduct(Tail(terms))}

\* the forms wiggle pushes for one element `sub` of the cartesian product
WiggleAddForms(sub) ==
  LET ix == FirstDivIx(sub)
  IN {Add(sub)} \cup
     (IF ix = 0 THEN {}
      ELSE {Div(Add([i \in DOMAIN sub |->
                       IF i # ix THEN Mul(sub[ix][3], sub[i]) ELSE sub[ix][2]]),
                sub[ix][3])})

\* the subsequence of the terms that satisfy / do not satisfy a.gcd() % q == 0
IntegerTerms(terms, q) == SelectSeq(terms, LAMBDA t : TGcd(t) % q = 0)

NonIntegerTerms(terms, q) == SelectSeq(terms, LAMBDA t : TGcd(t) % q # 0)

\* the forms wiggle pushes for one wiggled numerator of a Div
WiggleDivForms(num, q) ==
  {Div(num, q)} \cup
  (IF IsAdd(num)
   THEN LET int == IntegerTerms(num[2], q)
            non == NonIntegerTerms(num[2], q)
            divided == [i \in DOMAIN int |-> TDivBy(int[i], q)]
        IN {Add(IF Len(non) > 0 THEN Append(divided, Div(Add(non), q)) ELSE divided)}
   ELSE {})

\* TDim::wiggle; reduce sorts the forms, so they are kept as a set
Wiggle(e) ==
  CASE IsSym(e) \/ IsVal(e) -> {e}
    [] IsAdd(e) -> UNION {WiggleAddForms(sub) : sub \in WiggleProduct(e[2])}
    [] IsMul(e) -> {Mul(e[2], a) : a \in Wiggle(e[3])}
    [] IsDiv(e) -> UNION {WiggleDivForms(num, e[3]) : num \in Wiggle(e[2])}

\* min_by_key(cost) over a sequence: the first element of minimal cost
FirstMinCost(forms) ==
  LET i == CHOOSE i \in DOMAIN forms :
             /\ \A j \in DOMAIN forms : Cost(forms[i]) <= Cost(forms[j])
             /\ \A j \in 1..(i - 1) : Cost(forms[j]) > Cost(forms[i])
  IN forms[i]

\* .map(|e| e.simplify()) over the sorted forms
SimplifyEach(forms) == [i \in DOMAIN forms |-> Simplify(forms[i])]

\* .min_by_key(|e| e.cost()), unless computing a form panicked
MinCostForm(forms) ==
  IF \E i \in DOMAIN forms : HasPanic(forms[i]) THEN Panicked
  ELSE FirstMinCost(forms)

\* TDim::reduce
Reduce(e) == MinCostForm(SimplifyEach(SortSet(Wiggle(Simplify(e)))))

(***************************************************************************)
(* Delay: src/core/src/pulse/delay.rs                                      *)
(* Tensors are rank 1 on axis 0; the stream sample of index i has value i. *)
(***************************************************************************)
\* what an element of a Tensor::uninitialized buffer may hold
UninitValues == {0, 171}

\* the input of the k-th eval (k = 0, 1, ...): stream samples k*p .. k*p + p - 1
PulseInput(k, p) == [j \in 1..p |-> k * p + j - 1]

\* slice::rotate_left(n)
RotateLeft(s, n) == SubSeq(s, n + 1, Len(s)) \o SubSeq(s, 1, n)

\* the `build output` half of DelayState::eval_t
DelayOutput(op, buffer, input) ==
  LET input_pulse == Len(input)
      output_pulse == input_pulse + op.overlap
  IN IF op.delay < input_pulse
     THEN LET from_input == input_pulse - op.delay
              from_buffer == output_pulse - from_input
          IN SubSeq(buffer, 1, from_buffer) \o SubSeq(input, 1, from_input)
     ELSE SubSeq(buffer, 1, output_pulse)

\* a buffer maintenance that forgets to rotate the buffer
DelayMaintainUnrotated(op, buffer, input) ==
  LET buffered == op.delay + op.overlap
      input_pulse == Len(input)
  IN IF buffered < input_pulse
     THEN SubSeq(input, input_pulse - buffered + 1, input_pulse)
     ELSE SubSeq(buffer, 1, buffered - input_pulse) \o input

\* the `maintain buffer` half of DelayState::eval_t
DelayMaintain(op, buffer, input) ==
  LET buffered == op.delay + op.overlap
      input_pulse == Len(input)
  IN IF buffered < input_pulse
     THEN SubSeq(input, input_pulse - buffered + 1, input_pulse)
     ELSE SubSeq(RotateLeft(buffer, input_pulse), 1, buffered - input_pulse) \o input

(***************************************************************************)
(* Pulsification of Pad, Slice and Downsample:                             *)
(* src/core/src/ops/array/pad.rs, src/core/src/ops/array/slice.rs,         *)
(* src/core/src/ops/downsample/mod.rs                                      *)
(* Tensors are followed along the stream axis only: a tensor is the        *)
(* sequence of its frames, a frame is an integer. Axes are numbered from 0 *)
(* as in the source; sequences are indexed from 1.                         *)
(***************************************************************************)
\* the scalar of PadMode::Constant
PadConstant == 0

\* what the feeder emits outside of the stream: before its declared delay
\* has elapsed and after the end of the stream
Junk == -1

\* what an eval that panics is taken to return: no tensor holds this frame
PanicOutput == <<-1000>>

\* usize::MAX, the end_input of a session that does not know the stream length
UsizeMax == 1000000

\* TDim `+` (ops::Add): Add(vec![a, b]).reduce()
TAdd(a, b) == Reduce(Add(<<a, b>>))

\* TDim::div_ceil
TDivCeil(a, rhs) == Reduce(Div(Add(<<a, Val(rhs - 1)>>), rhs))

\* PulsedFact::pulse
FactPulse(fact) == fact.shape[fact.axis + 1]

\* Pad::eval_t along one axis, Constant and Edge modes
PadEval(op, axis, input) ==
  LET before == op.pads[axis + 1][1]
      after == op.pads[axis + 1][2]
  IN IF op.mode = "Constant"
     THEN [i \in 1..before |-> PadConstant] \o input \o [i \in 1..after |-> PadConstant]
     ELSE [i \in 1..before |-> input[1]] \o input \o [i \in 1..after |-> input[Len(input)]]

\* Slice::eval_t along its axis
SliceEval(op, input) == SubSeq(input, op.start + 1, op.end)

\* Downsample::eval_t along its axis: the frames modulo, modulo + stride, ...
DownsampleEval(op, input) ==
  IF op.modulo < Len(input)
  THEN [i \in 1..((Len(input) - op.modulo + op.stride - 1) \div op.stride) |->
          input[op.modulo + (i - 1) * op.stride + 1]]
  ELSE <<>>

\* StatelessOp::eval of the normalized op on the whole stream
OpEval(op, input) ==
  CASE op.kind = "Pad" -> PadEval(op, 0, input)
    [] op.kind = "Slice" -> IF op.axis = 0 THEN SliceEval(op, input) ELSE input
    [] op.kind = "Downsample" -> DownsampleEval(op, input)

\* Delay::new(input_fact, delay, overlap)
DelayNew(fact, delay, overlap) ==
  [kind |-> "Delay", axis |-> fact.axis, delay |-> delay, overlap |-> overlap]

\* a pulsed_output_facts for Delay that lets the delay of its input through
DelayFactsSameDelay(op, fact) == [fact EXCEPT !.shape[op.axis + 1] = @ + op.overlap]

\* PulsedOp::pulsed_output_facts for Delay
DelayFacts(op, fact) ==
  [fact EXCEPT !.shape[op.axis + 1] = @ + op.overlap,
               !.delay = @ + op.delay + op.overlap]

\* PulsedOp::pulsed_output_facts for PulsePad; the usize subtraction panics
\* when the delay is smaller than the left padding
PulsePadFacts(op, fact) ==
  [fact EXCEPT !.dim = TAdd(@, Val(op.before + op.after)),
               !.delay = @ - op.before]

\* PulsedOp::pulsed_output_facts for Slice (kept as is off the stream axis)
SliceFacts(op, fact) ==
  [fact EXCEPT !.delay = @ + op.start,
               !.dim = Val(op.end - op.start)]

\* PulsedOp::pulsed_output_facts for PulsedAxisSlice
PulsedAxisSliceFacts(op, fact) ==
  [fact EXCEPT !.delay = @ + op.skip,
               !.dim = op.take]

\* PulsedOp::pulsed_output_facts for Downsample
DownsampleFacts(op, fact) ==
  [fact EXCEPT !.shape[op.axis + 1] = @ \div op.stride,
               !.dim = TDivCeil(@, op.stride)]

\* pulsed_output_facts of a pulsed op, which wire_node stores on the new node
PulsedOutputFacts(op, fact) ==
  CASE op.kind = "Delay" -> DelayFacts(op, fact)
    [] op.kind = "PulsePad" -> PulsePadFacts(op, fact)
    [] op.kind = "Slice" -> SliceFacts(op, fact)
    [] op.kind = "PulsedAxisSlice" -> PulsedAxisSliceFacts(op, fact)
    [] op.kind = "Downsample" -> DownsampleFacts(op, fact)

\* PulsedModel::wire_node on a chain: the node gets the facts its op computes
\* from the fact of the outlet it is wired to
WireNode(target, op, fact) ==
  Append(target, [op |-> op, fact |-> PulsedOutputFacts(op, fact)])

\* a pulsify that never delays its input
PadExtraDelayNone(op, fact) == 0

\* a pulsify that delays its input by the missing left padding only, without
\* aligning the first valid frame of an Edge padding inside a pulse
PadExtraDelayUnaligned(op, fact) == SatSub(op.pads[fact.axis + 1][1], fact.delay)

\* the extra_delay Pad::pulsify computes before it wires anything
PadExtraDelay(op, fact) ==
  LET before == op.pads[fact.axis + 1][1]
      pulse == FactPulse(fact)
      extra_delay == SatSub(before, fact.delay)
      start_offset == (fact.delay + extra_delay) % pulse
  IN IF op.mode = "Edge" /\ before < pulse /\ before > start_offset
     THEN extra_delay + (before - start_offset)
     ELSE extra_delay

\* a pulsify that accepts any Edge padding
PadPulsifyFailsReflectOnly(op, fact) ==
  \/ ~(\A ax \in 0..(Len(op.pads) - 1) :
         ax = fact.axis \/ (op.pads[ax + 1][1] = 0 /\ op.pads[ax + 1][2] = 0))
  \/ op.mode = "Reflect"

\* the two bail! conditions of Pad::pulsify
PadPulsifyFails(op, fact) ==
  \/ ~(\A ax \in 0..(Len(op.pads) - 1) :
         ax = fact.axis \/ (op.pads[ax + 1][1] = 0 /\ op.pads[ax + 1][2] = 0))
  \/ (op.mode = "Edge" /\ ~(op.pads[fact.axis + 1][1] < FactPulse(fact)))
  \/ op.mode = "Reflect"

\* Pad::pulsify: the target after the call and whether it returned Ok
PadPulsify(op, fact, target) ==
  IF PadPulsifyFails(op, fact) THEN [ok |-> FALSE, target |-> target]
  ELSE LET before == op.pads[fact.axis + 1][1]
           after == op.pads[fact.axis + 1][2]
           extra_delay == PadExtraDelay(op, fact)
           delayed == IF extra_delay > 0
                      THEN WireNode(target, DelayNew(fact, extra_delay, 0), fact)
                      ELSE target
           input_fact == IF extra_delay > 0 THEN delayed[Len(delayed)].fact ELSE fact
           pad == [kind |-> "PulsePad", axis |-> fact.axis, pulse |-> FactPulse(fact),
                   before |-> before, after |-> after,
                   begin_input |-> fact.delay + extra_delay,
                   end_input |-> TAdd(TAdd(Val(fact.delay), Val(extra_delay)), fact.dim),
                   mode |-> op.mode]
       IN [ok |-> TRUE, target |-> WireNode(delayed, pad, input_fact)]

\* Slice::pulsify
SlicePulsify(op, fact, target) ==
  LET pulsed == IF op.axis = fact.axis
                THEN [kind |-> "PulsedAxisSlice", axis |-> op.axis, skip |-> op.start,
                      take |-> Val(op.end - op.start)]
                ELSE op
  IN [ok |-> TRUE, target |-> WireNode(target, pulsed, fact)]

\* Downsample::pulsify
DownsamplePulsify(op, fact, target) ==
  IF FactPulse(fact) % op.stride # 0 THEN [ok |-> FALSE, target |-> target]
  ELSE [ok |-> TRUE, target |-> WireNode(target, op, fact)]

\* TypedOp::pulsify of the normalized op
Pulsify(op, fact, target) ==
  CASE op.kind = "Pad" -> PadPulsify(op, fact, target)
    [] op.kind = "Slice" -> SlicePulsify(op, fact, target)
    [] op.kind = "Downsample" -> DownsamplePulsify(op, fact, target)

\* StatefullOp::state of a pulsed op: Delay allocates an uninitialized buffer
\* (any content), PulsePad starts from PulsePadOpState::default()
InitialStates(op) ==
  CASE op.kind = "Delay" -> [1..(op.delay + op.overlap) -> UninitValues]
    [] op.kind = "PulsePad" -> {[current_pos |-> 0, last_valid_frame |-> <<>>]}
    [] OTHER -> {<<>>}

\* the end_input PulsePadOpState::eval_t computes from the session
PulsePadEndInput(op, known) ==
  IF known = <<>> THEN UsizeMax ELSE EvalWith(op.end_input, known[1])

\* the frame PulsePadOpState::eval_t keeps in last_valid_frame
PulsePadLastValid(st, op, known, input) ==
  LET pulse_begin == st.current_pos
      end_input == PulsePadEndInput(op, known)
  IN IF op.mode = "Edge" /\ op.after > 0 /\ pulse_begin < end_input
     THEN <<input[Min(end_input - pulse_begin, op.pulse) - 1 + 1]>>
     ELSE st.last_valid_frame

\* the tensor PulsePadOpState::eval_t returns; a panic (index out of bounds on
\* an empty `valid`, unwrap of a None last_valid_frame) returns PanicOutput
PulsePadOutput(st, op, known, input) ==
  LET pulse_begin == st.current_pos
      pulse_end == st.current_pos + op.pulse
      end_input == PulsePadEndInput(op, known)
      last == PulsePadLastValid(st, op, known, input)
      fill_up_to == Min(op.begin_input - pulse_begin, op.pulse)
      fill_from == op.pulse - Min(pulse_end - end_input, op.pulse)
      fills_left == pulse_begin < op.begin_input
      fills_right == pulse_end > end_input /\ op.after > 0
      left == IF ~fills_left THEN input
              ELSE IF op.mode = "Constant"
              THEN [i \in 1..op.pulse |-> IF i <= fill_up_to THEN PadConstant ELSE input[i]]
              ELSE [i \in 1..op.pulse |-> IF i <= fill_up_to THEN input[fill_up_to + 1]
                                          ELSE input[i]]
      right == IF ~fills_right THEN left
               ELSE IF op.mode = "Constant"
               THEN [i \in 1..op.pulse |-> IF i > fill_from THEN PadConstant ELSE left[i]]
               ELSE [i \in 1..op.pulse |-> IF i > fill_from THEN last[1] ELSE left[i]]
  IN IF pulse_begin >= op.begin_input /\ pulse_end <= end_input THEN input
     ELSE IF pulse_end <= op.begin_input - op.before
             \/ pulse_begin >= end_input + op.after THEN input
     ELSE IF fills_left /\ op.mode = "Edge" /\ fill_up_to >= op.pulse THEN PanicOutput
     ELSE IF fills_right /\ op.mode = "Edge" /\ last = <<>> THEN PanicOutput
     ELSE right

\* OpState::eval of one pulsed op on one pulse: the tensor it returns
PulsedOpOutput(op, st, known, input) ==
  CASE op.kind = "Delay" -> DelayOutput(op, st, input)
    [] op.kind = "PulsePad" -> PulsePadOutput(st, op, known, input)
    [] op.kind = "Downsample" -> DownsampleEval(op, input)
    [] OTHER -> input

\* OpState::eval of one pulsed op on one pulse: the state it leaves
PulsedOpState(op, st, known, input) ==
  CASE op.kind = "Delay" -> DelayMaintain(op, st, input)
    [] op.kind = "PulsePad" ->
         [current_pos |-> st.current_pos + op.pulse,
          last_valid_frame |-> PulsePadLastValid(st, op, known, input)]
    [] OTHER -> st

RECURSIVE ChainOutput(_, _, _, _)
\* SimpleState::run on a chain of pulsed nodes: the output of the last node;
\* a panic in a node aborts the run
ChainOutput(target, states, known, input) ==
  IF target = <<>> \/ input = PanicOutput THEN input
  ELSE ChainOutput(Tail(target), Tail(states), known,
                   PulsedOpOutput(Head(target).op, Head(states), known, input))

RECURSIVE ChainStates(_, _, _, _)
\* SimpleState::run on a chain of pulsed nodes: the states of the nodes after it
ChainStates(target, states, known, input) ==
  IF target = <<>> THEN <<>>
  ELSE <<PulsedOpState(Head(target).op, Head(states), known, input)>> \o
       ChainStates(Tail(target), Tail(states), known,
                   PulsedOpOutput(Head(target).op, Head(states), known, input))

\* the frame of stream position n (n = 0, 1, ...) the feeder presents, given
\* the delay its fact declares and the stream length
FeederFrame(n, delay, len) ==
  IF n >= delay /\ n < delay + len THEN n - delay + 1 ELSE Junk

\* the stream of len frames the non-pulsed model is run on
WholeStream(len) == [i \in 1..len |-> i]

(***************************************************************************)
(* Downsample pulled over a Slice:                                         *)
(* src/core/src/ops/downsample/array.rs, src/core/src/ops/downsample/mod.rs *)
(***************************************************************************)
\* Downsample::transform_dim: (input_dim - modulo).div_ceil(stride)
DownsampleTransformDim(op, input_dim) ==
  TDivCeil(TAdd(input_dim, Val(-op.modulo)), op.stride)

\* the dimension Slice::output_facts gives on the axis of the slice
SliceOutputDim(op) == Val(op.end - op.start)

\* a rewrite that keeps the modulo of the Downsample
PullKeepsModulo(slice_op, down_op) ==
  LET left == (down_op.modulo + slice_op.start) \div down_op.stride
      final_len == DownsampleTransformDim(down_op, SliceOutputDim(slice_op))
      new_end == TAdd(final_len, Val(left))[2]
  IN <<[kind |-> "Downsample", axis |-> down_op.axis, stride |-> down_op.stride,
        modulo |-> down_op.modulo],
       [kind |-> "Slice", axis |-> slice_op.axis, start |-> left, end |-> new_end]>>

\* pull_downsample_over_slice, both ops on the same axis: the ops of the two
\* nodes the patch wires on the input of the slice, in order
PullDownsampleOverSlice(slice_op, down_op) ==
  LET modulo == (down_op.modulo + slice_op.start) % down_op.stride
      left == (down_op.modulo + slice_op.start) \div down_op.stride
      final_len == DownsampleTransformDim(down_op, SliceOutputDim(slice_op))
      new_end == TAdd(final_len, Val(left))[2]
  IN <<[kind |-> "Downsample", axis |-> down_op.axis, stride |-> down_op.stride,
        modulo |-> modulo],
       [kind |-> "Slice", axis |-> slice_op.axis, start |-> left, end |-> new_end]>>

\* StatelessOp::eval of a Slice or a Downsample on axis 0; ndarray panics on a
\* slice that is not within the input
EvalOrPanic(op, input) ==
  IF input = PanicOutput THEN PanicOutput
  ELSE IF op.kind = "Slice"
  THEN IF op.start <= op.end /\ op.end <= Len(input) THEN SliceEval(op, input)
       ELSE PanicOutput
  ELSE DownsampleEval(op, input)

\* SimplePlan::run on a model input -> first -> second
RunPair(first, second, input) == EvalOrPanic(second, EvalOrPanic(first, input))

\* tests::crop_then_down: tensor1(0..len)
CropInput(len) == [i \in 1..len |-> i - 1]

(***************************************************************************)
(* TDim arithmetic operators: the ops:: impls of src/core/src/dim/tree.rs, *)
(* each of which reduces its result.                                       *)
(***************************************************************************)
\* ops::Neg: Mul(-1, self).reduce()
TNeg(a) == Reduce(Mul(-1, a))

\* ops::Sub / SubAssign: *self += rhs.neg()
TSub(a, b) == TAdd(a, TNeg(b))

\* ops::Mul<i32> / MulAssign: Mul(rhs, self).reduce()
TMul(a, k) == Reduce(Mul(k, a))

\* a DivAssign that leaves the quotient as it was built
TDivUnreduced(a, q) == Div(a, q)

\* ops::Div<u32> / DivAssign: Div(self, rhs).reduce()
TDiv(a, q) == Reduce(Div(a, q))

\* ops::Rem<u32> / RemAssign: *self += -(self.clone() / rhs * rhs)
TRem(a, q) == TAdd(a, TNeg(TMul(TDiv(a, q), q)))

(***************************************************************************)
(* The Scan loop: src/core/src/ops/scan/lir.rs, src/core/src/ops/scan/mod.rs *)
(* A tensor is the sequence of its frames along axis 0, a frame is an      *)
(* integer; Tensor::default() is the empty sequence. Slots and iterations  *)
(* are numbered from 0 as in the source.                                   *)
(***************************************************************************)
\* InputMapping::Scan { slot, axis, chunk }
ScanInput(slot, chunk) == [kind |-> "Scan", slot |-> slot, axis |-> 0, chunk |-> chunk]

\* InputMapping::State { initializer }
StateInput(initializer) == [kind |-> "State", initializer |-> initializer]

\* InputMapping::Full { slot }
FullInput(slot) == [kind |-> "Full", slot |-> slot]

\* StateInitializer::FromInput(slot)
FromInput(slot) == <<"FromInput", slot>>

\* StateInitializer::Value(tensor)
Value(tensor) == <<"Value", tensor>>

\* OutputMapping { full_slot, axis, last_value_slot, state }, without a
\* full_dim_hint; an absent slot is <<>>
OutputMapping(full_slot, last_value_slot, state) ==
  [full_slot |-> full_slot, axis |-> 0, last_value_slot |-> last_value_slot, state |-> state]

\* the sequence in the opposite order: Vec::reverse
Reverse(s) == [i \in 1..Len(s) |-> s[Len(s) - i + 1]]

RECURSIVE SumSeq(_)
\* the sum of the frames of a tensor
SumSeq(s) == IF s = <<>> THEN 0 ELSE Head(s) + SumSeq(Tail(s))

RECURSIVE WeightedSum(_, _)
\* the sum of the tensors of a sequence, the k-th one counting k times
WeightedSum(tensors, k) ==
  IF tensors = <<>> THEN 0
  ELSE k * SumSeq(Head(tensors)) + WeightedSum(Tail(tensors), k + 1)

\* model_state.run(iter_inputs): the body, a plan that gives one tensor of
\* one frame per output mapping, each one depending on every input and on
\* the place of every input
ScanBody(iter_inputs, outputs) ==
  [j \in 1..outputs |-> <<(j + WeightedSum(iter_inputs, 1)) % 7>>]

\* the State mappings of the op, in order
StateMappings(op) == SelectSeq(op.input_mapping, LAMBDA m : m.kind = "State")

\* eval, `if mutable.hidden_state.len() == 0`: one tensor per State mapping,
\* from its initializer
InitialHidden(op, inputs) ==
  [k \in 1..Len(StateMappings(op)) |->
     LET initializer == StateMappings(op)[k].initializer
     IN IF initializer[1] = "FromInput" THEN inputs[initializer[2] + 1]
        ELSE initializer[2]]

\* iters: the length of the first scanned input over its chunk, rounded up
ScanIters(op, inputs) ==
  LET scan == SelectSeq(op.input_mapping, LAMBDA m : m.kind = "Scan")[1]
  IN IntDivCeil(Len(inputs[scan.slot + 1]), scan.chunk)

\* the output mappings that have a full_slot, in order
FullMappings(op) == SelectSeq(op.output_mapping, LAMBDA m : m.full_slot # <<>>)

RECURSIVE AllocOutputs(_, _, _, _)
\* eval, the loop that allocates the outputs: the pairs (slot, tensor); the
\* n-th full output is allocated uninitialized, with the content fill[n]
AllocOutputs(mappings, iters, fill, n) ==
  IF mappings = <<>> THEN <<>>
  ELSE LET output == Head(mappings)
           full == IF output.full_slot = <<>> THEN <<>>
                   ELSE <<<<output.full_slot[1], fill[n]>>>>
           last == IF output.last_value_slot = <<>> THEN <<>>
                   ELSE <<<<output.last_value_slot[1], <<>>>>>>
       IN full \o last \o
          AllocOutputs(Tail(mappings), iters, fill,
                       IF output.full_slot = <<>> THEN n ELSE n + 1)

RECURSIVE SortByKey(_)
\* outputs.sort_by_key(|a| a.0): a stable sort
SortByKey(pairs) ==
  IF pairs = <<>> THEN <<>>
  ELSE LET i == CHOOSE i \in 1..Len(pairs) :
                  /\ \A j \in 1..Len(pairs) : pairs[i][1] <= pairs[j][1]
                  /\ \A j \in 1..(i - 1) : pairs[j][1] > pairs[i][1]
       IN <<pairs[i]>> \o
          SortByKey(SubSeq(pairs, 1, i - 1) \o SubSeq(pairs, i + 1, Len(pairs)))

\* the outputs of eval before the loop, by slot
SortedOutputs(pairs) == [s \in 1..Len(pairs) |-> SortByKey(pairs)[s][2]]

\* MutableState::slice_input_t along axis 0
SliceInput(input, chunk_ix, chunk_dim, backward) ==
  LET full_len == Len(input)
  IN IF backward
     THEN [j \in 1..chunk_dim |->
             IF chunk_dim * chunk_ix + (chunk_dim - j) < full_len
             THEN input[full_len - (chunk_ix * chunk_dim + (chunk_dim - j))]
             ELSE 0]
     ELSE IF (chunk_ix + 1) * chunk_dim > full_len
     THEN [j \in 1..chunk_dim |->
             IF j <= full_len - chunk_ix * chunk_dim THEN input[chunk_ix * chunk_dim + j]
             ELSE 0]
     ELSE SubSeq(input, chunk_ix * chunk_dim + 1, (chunk_ix + 1) * chunk_dim)

\* MutableState::assign_output_t along axis 0
AssignOutput(output, element_value, i, backward) ==
  LET full_len == Len(output)
      offset == IF backward THEN full_len - 1 - i * Len(element_value)
                ELSE i * Len(element_value)
      count == Min(Len(element_value), full_len - offset)
  IN [n \in 1..full_len |->
        IF n > offset /\ n <= offset + count THEN element_value[n - offset]
        ELSE output[n]]

\* a loop body that pops the State inputs from the hidden state as it is
PopOrderKept(hidden_state) == hidden_state

\* mutable.hidden_state.reverse(): the stack the State inputs are popped from
PopOrder(hidden_state) == Reverse(hidden_state)

RECURSIVE IterInputs(_, _, _, _, _)
\* the iter_inputs of iteration i: [ok, values, stack]; a State mapping pops
\* the stack, and the unwrap panics on an empty stack
IterInputs(mappings, stack, inputs, i, backward) ==
  IF mappings = <<>> THEN [ok |-> TRUE, values |-> <<>>, stack |-> stack]
  ELSE LET m == Head(mappings)
           popped == m.kind = "State"
           value == CASE m.kind = "State" -> stack[Len(stack)]
                      [] m.kind = "Scan" ->
                           SliceInput(inputs[m.slot + 1], i, m.chunk, backward)
                      [] m.kind = "Full" -> inputs[m.slot + 1]
           rest == IterInputs(Tail(mappings),
                              IF popped THEN SubSeq(stack, 1, Len(stack) - 1) ELSE stack,
                              inputs, i, backward)
       IN IF popped /\ stack = <<>> THEN [ok |-> FALSE, values |-> <<>>, stack |-> stack]
          ELSE [ok |-> rest.ok, values |-> <<value>> \o rest.values, stack |-> rest.stack]

RECURSIVE KeepOutputs(_, _, _, _, _, _)
\* the loop over iter_outputs zipped with the output mappings: the outputs
\* of eval and the hidden state after it; [outputs, hidden_state]
KeepOutputs(iter_outputs, mappings, acc, i, iters, backward) ==
  IF iter_outputs = <<>> \/ mappings = <<>> THEN acc
  ELSE LET v == Head(iter_outputs)
           mapping == Head(mappings)
           assigned == IF mapping.full_slot = <<>> THEN acc.outputs
                       ELSE [acc.outputs EXCEPT ![mapping.full_slot[1] + 1] =
                               AssignOutput(@, v, i, backward)]
           lasted == IF i = iters - 1 /\ mapping.last_value_slot # <<>>
                     THEN [assigned EXCEPT ![mapping.last_value_slot[1] + 1] = v]
                     ELSE assigned
       IN KeepOutputs(Tail(iter_outputs), Tail(mappings),
                      [outputs |-> lasted,
                       hidden_state |-> IF mapping.state THEN Append(acc.hidden_state, v)
                                        ELSE acc.hidden_state],
                      i, iters, backward)

\* one iteration that runs the body, ins being its iter_inputs:
\* [status, mutable, outputs]; the body returns an error when fails
IterationRun(op, mutable, ins, i, iters, outputs, fails, call) ==
  LET iter_outputs == ScanBody(ins.values, Len(op.output_mapping))
      kept == KeepOutputs(iter_outputs, op.output_mapping,
                          [outputs |-> outputs, hidden_state |-> ins.stack],
                          i, iters, op.backward)
  IN IF ~ins.ok
     THEN [status |-> "panic", mutable |-> [mutable EXCEPT !.hidden_state = ins.stack],
           outputs |-> outputs]
     ELSE IF fails
     THEN [status |-> "err", mutable |-> [mutable EXCEPT !.hidden_state = ins.stack],
           outputs |-> outputs]
     ELSE [status |-> "ok",
           mutable |-> [mutable EXCEPT
                          !.hidden_state = kept.hidden_state,
                          !.log = Append(@, [eval |-> call, i |-> i,
                                             hidden_state |-> mutable.hidden_state,
                                             inputs |-> ins.values,
                                             outputs |-> iter_outputs])],
           outputs |-> kept.outputs]

RECURSIVE ScanLoop(_, _, _, _, _, _, _, _)
\* eval, `for i in 0..iters`: [status, mutable, outputs]; fail_at is <<>> or
\* the iteration in which the body returns an error
ScanLoop(op, mutable, inputs, i, iters, outputs, fail_at, call) ==
  IF i >= iters THEN [status |-> "ok", mutable |-> mutable, outputs |-> outputs]
  ELSE LET moved == [mutable EXCEPT !.position = @ + 1]
       IN IF moved.position <= op.skip
          THEN ScanLoop(op, moved, inputs, i + 1, iters, outputs, fail_at, call)
          ELSE LET ran == IterationRun(op, moved,
                                       IterInputs(op.input_mapping,
                                                  PopOrder(moved.hidden_state),
                                                  inputs, i, op.backward),
                                       i, iters, outputs, fail_at = <<i>>, call)
               IN IF ran.status # "ok" THEN ran
                  ELSE ScanLoop(op, ran.mutable, inputs, i + 1, iters, ran.outputs,
                                fail_at, call)

\* the hidden state eval starts its loop with
StartingHidden(op, mutable, inputs) ==
  IF Len(mutable.hidden_state) = 0 THEN InitialHidden(op, inputs)
  ELSE mutable.hidden_state

\* OpState::eval for State: [status, mutable, outputs]
ScanEval(op, mutable, inputs, fill, fail_at, call) ==
  ScanLoop(op, [mutable EXCEPT !.hidden_state = StartingHidden(op, mutable, inputs)],
           inputs, 0, ScanIters(op, inputs),
           SortedOutputs(AllocOutputs(op.output_mapping, ScanIters(op, inputs), fill, 1)),
           fail_at, call)

(***************************************************************************)
(* Typed models of Pad, Slice and Downsample nodes: a node of the graph    *)
(* holds its op, and an outlet its fact, under a name, which is the        *)
(* printed form of the op's fields / of the shape; the tables below read   *)
(* the name back.                                                          *)
(* src/core/src/ops/array/pad.rs, src/core/src/ops/array/slice.rs,         *)
(* src/core/src/ops/downsample/mod.rs                                      *)
(***************************************************************************)
\* the dimensions the typed facts take
TypedDims == 0..9

\* the rank 2 shapes of the typed facts
TypedShapes == TypedDims \X TypedDims

\* the ops a typed model holds: Pad (Constant mode), Slice, Downsample
TypedOps ==
  {[kind |-> "Pad", pads |-> <<<<b, a>>, <<0, 0>>>>] : b \in 0..1, a \in 0..1}
  \cup {op \in [kind : {"Slice"}, axis : {0, 1}, start : TypedDims, end : TypedDims] :
          op.start <= op.end}
  \cup {op \in [kind : {"Downsample"}, axis : {0, 1}, stride : 1..3, modulo : 0..2] :
          op.modulo < op.stride}

\* the printed form of an op: Op::name and the fields Op::info gives
OpName(op) ==
  CASE op.kind = "Pad" ->
         "Pad " \o ToString(op.pads[1][1]) \o "," \o ToString(op.pads[1][2]) \o " "
                \o ToString(op.pads[2][1]) \o "," \o ToString(op.pads[2][2])
    [] op.kind = "Slice" ->
         "Slice axis:" \o ToString(op.axis) \o " " \o ToString(op.start) \o ".."
                       \o ToString(op.end)
    [] op.kind = "Downsample" ->
         "Downsample axis:" \o ToString(op.axis) \o " stride:" \o ToString(op.stride)
                            \o " modulo:" \o ToString(op.modulo)

\* the printed form of the shape of a fact
FactName(shape) == ToString(shape[1]) \o "x" \o ToString(shape[2])

\* the ops and the shapes by their printed form
NamedOps == [name \in {OpName(op) : op \in TypedOps} |->
               CHOOSE op \in TypedOps : OpName(op) = name]

NamedShapes == [name \in {FactName(shape) : shape \in TypedShapes} |->
                  CHOOSE shape \in TypedShapes : FactName(shape) = name]

\* Pad::output_facts: every dimension grows by the padding of its axis
PadOutputShape(op, shape) ==
  [ix \in 1..Len(shape) |-> shape[ix] + op.pads[ix][1] + op.pads[ix][2]]

\* Slice::output_facts: the dimension of the axis is end - start
SliceOutputShape(op, shape) == [shape EXCEPT ![op.axis + 1] = op.end - op.start]

\* Downsample::transform_dim on an integer dimension,
\* (input_dim - modulo).div_ceil(stride): div_ceil adds stride - 1 and
\* divides, and the division of two integers truncates
TransformIntegerDim(op, input_dim) ==
  TruncDiv(input_dim - op.modulo + op.stride - 1, op.stride)

\* Downsample::output_facts: the dimension of the axis goes through
\* transform_dim
DownsampleOutputShape(op, shape) ==
  [shape EXCEPT ![op.axis + 1] = TransformIntegerDim(op, @)]

\* TypedOp::output_facts of the three ops, on the shape of the only input
OutputShape(op, shape) ==
  CASE op.kind = "Pad" -> PadOutputShape(op, shape)
    [] op.kind = "Slice" -> SliceOutputShape(op, shape)
    [] op.kind = "Downsample" -> DownsampleOutputShape(op, shape)

(***************************************************************************)
(* Graph model, ModelPatch and Translate:                                  *)
(* src/core/src/model/patch.rs, src/core/src/model/translator.rs           *)
(* A model is [nodes, inputs, outputs, labels]; a node is [name, op,       *)
(* inputs, outputs], each output being [fact, successors]. OutletId and    *)
(* InletId are pairs <<node, slot>> numbered from 0 as in the source; the  *)
(* node of id n is nodes[n + 1]. A HashMap is the set of its <<key,        *)
(* value>> entries.                                                        *)
(***************************************************************************)
\* HashMap::contains_key
MapHas(map, k) == \E e \in map : e[1] = k

\* HashMap index: map[&k]
MapGet(map, k) == (CHOOSE e \in map : e[1] = k)[2]

\* HashMap::insert
MapInsert(map, k, v) == {e \in map : e[1] # k} \cup {<<k, v>>}

\* the orders in which the entries of a HashMap may be iterated
Orders(map) ==
  {o \in [1..Cardinality(map) -> map] : \A i, j \in 1..Cardinality(map) : o[i] = o[j] => i = j}

\* ModelImpl::default
EmptyModel == [nodes |-> <<>>, inputs |-> <<>>, outputs |-> <<>>, labels |-> {}]

\* the outlet names an existing node and one of its outputs
ValidOutlet(model, outlet) ==
  /\ outlet[1] < Len(model.nodes)
  /\ outlet[2] < Len(model.nodes[outlet[1] + 1].outputs)

\* ModelImpl::outlet_fact, on a valid outlet
OutletFact(model, outlet) == model.nodes[outlet[1] + 1].outputs[outlet[2] + 1].fact

\* the successors of a valid outlet
Successors(model, outlet) == model.nodes[outlet[1] + 1].outputs[outlet[2] + 1].successors

\* ModelImpl::add_node: appends a node with no input; its id is the former
\* number of nodes
AddNode(model, name, op, facts) ==
  [model EXCEPT !.nodes =
     Append(@, [name |-> name, op |-> op, inputs |-> <<>>,
                outputs |-> [i \in 1..Len(facts) |->
                               [fact |-> facts[i], successors |-> <<>>]]])]

\* ModelImpl::add_edge succeeds: both endpoints exist and the inlet is an
\* input of the consumer or the next one
AddEdgeOk(model, outlet, inlet) ==
  /\ ValidOutlet(model, outlet)
  /\ inlet[1] < Len(model.nodes)
  /\ inlet[2] <= Len(model.nodes[inlet[1] + 1].inputs)

\* the sequence without the occurrences of x
Without(s, x) == SelectSeq(s, LAMBDA y : y # x)

\* ModelImpl::add_edge, when it succeeds: the inlet leaves the successors of
\* its previous producer, joins those of the outlet, and the consumer's
\* input is set
AddEdge(model, outlet, inlet) ==
  LET consumer == model.nodes[inlet[1] + 1]
      replaces == inlet[2] < Len(consumer.inputs)
      previous == consumer.inputs[inlet[2] + 1]
      unlinked == IF replaces
                  THEN [model EXCEPT !.nodes[previous[1] + 1].outputs[previous[2] + 1].successors =
                                        Without(@, inlet)]
                  ELSE model
      linked == [unlinked EXCEPT !.nodes[outlet[1] + 1].outputs[outlet[2] + 1].successors =
                                    Append(@, inlet)]
  IN [linked EXCEPT !.nodes[inlet[1] + 1].inputs =
                       IF replaces THEN [@ EXCEPT ![inlet[2] + 1] = outlet]
                       ELSE Append(@, outlet)]

\* ModelSpecialOps::add_source: a Source node, declared as a model input
AddSource(model, name, fact) ==
  [AddNode(model, name, "Source", <<fact>>) EXCEPT
     !.inputs = Append(@, <<Len(model.nodes), 0>>)]

\* ModelImpl::outlet_label: the labels of the outlet, none or one
OutletLabel(model, outlet) == {e[2] : e \in {l \in model.labels : l[1] = outlet}}

\* ModelImpl::set_outlet_label
SetOutletLabel(model, outlet, label) ==
  [model EXCEPT !.labels = MapInsert(@, outlet, label)]

\* ModelPatch::default
DefaultPatch ==
  [model |-> EmptyModel, incoming |-> {}, shunt_outlet_by |-> {}, obliterate |-> <<>>]

\* format!("incoming-{}/{}", outlet.node, outlet.slot)
IncomingName(outlet) ==
  <<
     <<"incoming-0/0", "incoming-0/1">>,
     <<"incoming-1/0", "incoming-1/1">>,
     <<"incoming-2/0", "incoming-2/1">>,
     <<"incoming-3/0", "incoming-3/1">>,
     <<"incoming-4/0", "incoming-4/1">>,
     <<"incoming-5/0", "incoming-5/1">>,
     <<"incoming-6/0", "incoming-6/1">>,
     <<"incoming-7/0", "incoming-7/1">>,
     <<"incoming-8/0", "incoming-8/1">>,
     <<"incoming-9/0", "incoming-9/1">>,
     <<"incoming-10/0", "incoming-10/1">>,
     <<"incoming-11/0", "incoming-11/1">>
  >>[outlet[1] + 1][outlet[2] + 1]

\* ModelPatch::tap_model: [ok, patch, id]
TapModel(self, model, outlet) ==
  IF ~ValidOutlet(model, outlet) THEN [ok |-> FALSE, patch |-> self, id |-> <<0, 0>>]
  ELSE LET id == <<Len(self.model.nodes), 0>>
           sourced == AddSource(self.model, IncomingName(outlet),
                                OutletFact(model, outlet))
       IN [ok |-> TRUE,
           patch |-> [self EXCEPT !.model = sourced,
                                   !.incoming = MapInsert(@, id, outlet)],
           id |-> id]

\* Fact::same_as
SameAs(original_fact, new_fact) == original_fact = new_fact

\* a shunt_outside that records the replacement whatever the facts
ShuntOutsideUnchecked(self, model, outlet, by) ==
  IF ~ValidOutlet(model, outlet) \/ ~ValidOutlet(self.model, by)
  THEN [ok |-> FALSE, patch |-> self]
  ELSE [ok |-> TRUE,
        patch |-> [self EXCEPT !.shunt_outlet_by = MapInsert(@, outlet, by)]]

\* ModelPatch::shunt_outside: [ok, patch]
ShuntOutside(self, model, outlet, by) ==
  IF ~ValidOutlet(model, outlet) \/ ~ValidOutlet(self.model, by)
  THEN [ok |-> FALSE, patch |-> self]
  ELSE IF ~SameAs(OutletFact(model, outlet), OutletFact(self.model, by))
  THEN [ok |-> FALSE, patch |-> self]
  ELSE [ok |-> TRUE,
        patch |-> [self EXCEPT !.shunt_outlet_by = MapInsert(@, outlet, by)]]

\* ModelPatch::shunt_one_op: [ok, patch]; no node is marked for obliteration
ShuntOneOp(patched_model, node) ==
  LET tap == TapModel(DefaultPatch, patched_model, patched_model.nodes[node + 1].inputs[1])
  IN IF ~tap.ok THEN [ok |-> FALSE, patch |-> DefaultPatch]
     ELSE ShuntOutside(tap.patch, patched_model, <<node, 0>>, tap.id)

\* an intercept that shunts the outlet by the new node and leaves the node
\* without input
InterceptUnwired(patched_model, outlet, name, new_op, fact) ==
  LET tap == TapModel(DefaultPatch, patched_model, outlet)
      new_id == Len(tap.patch.model.nodes)
      added == [tap.patch EXCEPT !.model = AddNode(@, name, new_op, <<fact>>)]
  IN IF ~tap.ok THEN [ok |-> FALSE, patch |-> DefaultPatch]
     ELSE ShuntOutside(added, patched_model, outlet, <<new_id, 0>>)

\* ModelPatch::intercept: [ok, patch]
Intercept(patched_model, outlet, name, new_op, fact) ==
  LET tap == TapModel(DefaultPatch, patched_model, outlet)
      new_id == Len(tap.patch.model.nodes)
      added == [tap.patch EXCEPT !.model =
                  AddEdge(AddNode(@, name, new_op, <<fact>>), tap.id, <<new_id, 0>>)]
  IN IF ~tap.ok THEN [ok |-> FALSE, patch |-> DefaultPatch]
     ELSE ShuntOutside(added, patched_model, outlet, <<new_id, 0>>)

\* the Slice ops of the graph models, by name: [axis, start, end]
SliceParams(op) ==
  CASE op = "Slice(1,0..3)" -> [axis |-> 1, start |-> 0, end |-> 3]
    [] op = "Slice(1,1..3)" -> [axis |-> 1, start |-> 1, end |-> 3]
    [] op = "Slice(0,0..2)" -> [axis |-> 0, start |-> 0, end |-> 2]
    [] OTHER -> NamedOps[op]

\* the shape of a fact of the graph models
FactShape(fact) ==
  CASE fact = "F1" -> <<2, 3>>
    [] fact = "F2" -> <<2, 2>>
    [] OTHER -> NamedShapes[fact]

\* Slice::declutter on a node whose producer is no concat: [ok, some, patch]
SliceDeclutter(model, node) ==
  LET self == SliceParams(model.nodes[node + 1].op)
      input == model.nodes[node + 1].inputs[1]
  IN IF self.start = 0 /\ self.end = FactShape(OutletFact(model, input))[self.axis + 1]
     THEN LET shunted == ShuntOneOp(model, node)
          IN [ok |-> shunted.ok, some |-> shunted.ok, patch |-> shunted.patch]
     ELSE [ok |-> TRUE, some |-> FALSE, patch |-> DefaultPatch]

\* ModelPatch::obliterate
Obliterate(self, node) == [self EXCEPT !.obliterate = Append(@, node)]

RECURSIVE WireInputs(_, _, _, _)
\* the add_edge calls of wire_node, one per input, in order
WireInputs(model, node, inputs, ix) ==
  IF ix >= Len(inputs) THEN model
  ELSE WireInputs(AddEdge(model, inputs[ix + 1], <<node, ix>>), node, inputs, ix + 1)

\* wire_node on the patch's model: add_node, then add_edge for each input
PatchWireNode(self, name, op, inputs, fact) ==
  [self EXCEPT !.model =
     WireInputs(AddNode(@, name, op, <<fact>>), Len(@.nodes), inputs, 0)]

\* the input and output arity the debug_assert_eq! of apply compare
Arity(target) == <<Len(target.inputs), Len(target.outputs)>>

RECURSIVE ApplyClonesKeepInputs(_, _, _, _, _)
\* a first loop that adds the patch nodes with the inputs they have in the patch
ApplyClonesKeepInputs(nodes, id, target, mapping, all_inputs) ==
  IF id >= Len(nodes) THEN [target |-> target, mapping |-> mapping, all_inputs |-> all_inputs]
  ELSE LET node == nodes[id + 1]
           added_node_id == Len(target.nodes)
       IN IF node.op = "Source"
          THEN ApplyClonesKeepInputs(nodes, id + 1, target, mapping, all_inputs)
          ELSE ApplyClonesKeepInputs(nodes, id + 1,
                           [target EXCEPT !.nodes = Append(@, node)],
                           {e \in mapping : ~(e[1][1] = id /\ e[1][2] < Len(node.outputs))} \cup
                             {<<<<id, ix>>, <<added_node_id, ix>>>> :
                                ix \in 0..(Len(node.outputs) - 1)},
                           MapInsert(all_inputs, added_node_id, <<>>))

RECURSIVE ApplyClones(_, _, _, _, _)
\* apply, first loop: every patch node that is not a source is added to the
\* target; [target, mapping, all_inputs]
ApplyClones(nodes, id, target, mapping, all_inputs) ==
  IF id >= Len(nodes) THEN [target |-> target, mapping |-> mapping, all_inputs |-> all_inputs]
  ELSE LET node == nodes[id + 1]
           added_node_id == Len(target.nodes)
           facts == [i \in 1..Len(node.outputs) |-> node.outputs[i].fact]
       IN IF node.op = "Source"
          THEN ApplyClones(nodes, id + 1, target, mapping, all_inputs)
          ELSE ApplyClones(nodes, id + 1,
                           AddNode(target, node.name, node.op, facts),
                           {e \in mapping : ~(e[1][1] = id /\ e[1][2] < Len(node.outputs))} \cup
                             {<<<<id, ix>>, <<added_node_id, ix>>>> :
                                ix \in 0..(Len(node.outputs) - 1)},
                           MapInsert(all_inputs, added_node_id, node.inputs))

RECURSIVE ApplySuccessorsCopied(_, _, _)
\* a `for succ in succs` that pushes each successor onto the replacement
\* without add_edge
ApplySuccessorsCopied(target, fixed_by, succs) ==
  IF succs = <<>> THEN [status |-> "ok", target |-> target]
  ELSE IF ~ValidOutlet(target, fixed_by) THEN [status |-> "err", target |-> target]
  ELSE ApplySuccessorsCopied(
         [target EXCEPT !.nodes[fixed_by[1] + 1].outputs[fixed_by[2] + 1].successors =
                           Append(@, Head(succs))],
         fixed_by, Tail(succs))

RECURSIVE ApplySuccessors(_, _, _)
\* apply, second loop, `for succ in succs`: [status, target]
ApplySuccessors(target, fixed_by, succs) ==
  IF succs = <<>> THEN [status |-> "ok", target |-> target]
  ELSE IF ~AddEdgeOk(target, fixed_by, Head(succs))
  THEN [status |-> "err", target |-> target]
  ELSE ApplySuccessors(AddEdge(target, fixed_by, Head(succs)), fixed_by, Tail(succs))

\* a second loop that pushes the replacement on the model outputs
ApplyShuntOutputPushed(target, mapping, outlet, by) ==
  IF ~MapHas(mapping, by) \/ ~ValidOutlet(target, outlet)
  THEN [status |-> "panic", target |-> target]
  ELSE LET fixed_by == MapGet(mapping, by)
           copied == ApplySuccessors(target, fixed_by, Successors(target, outlet))
       IN IF copied.status # "ok" THEN copied
          ELSE [status |-> "ok",
                target |-> [copied.target EXCEPT !.outputs = Append(@, fixed_by)]]

\* apply, second loop, one (outlet, by) entry: [status, target]. Indexing the
\* mapping or the nodes out of bounds panics.
ApplyShunt(target, mapping, outlet, by) ==
  IF ~MapHas(mapping, by) \/ ~ValidOutlet(target, outlet)
  THEN [status |-> "panic", target |-> target]
  ELSE LET fixed_by == MapGet(mapping, by)
           copied == ApplySuccessors(target, fixed_by, Successors(target, outlet))
           rewired == [copied.target EXCEPT !.outputs =
                         [i \in 1..Len(copied.target.outputs) |->
                            IF copied.target.outputs[i] = outlet THEN fixed_by
                            ELSE copied.target.outputs[i]]]
           label == OutletLabel(rewired, outlet)
       IN IF copied.status # "ok" THEN copied
          ELSE [status |-> "ok",
                target |-> IF label = {} THEN rewired
                           ELSE SetOutletLabel(rewired, fixed_by, CHOOSE l \in label : TRUE)]

RECURSIVE ApplyShunts(_, _, _)
\* apply, second loop over shunt_outlet_by in the order of iteration
ApplyShunts(target, mapping, entries) ==
  IF entries = <<>> THEN [status |-> "ok", target |-> target]
  ELSE LET done == ApplyShunt(target, mapping, Head(entries)[1], Head(entries)[2])
       IN IF done.status # "ok" THEN done
          ELSE ApplyShunts(done.target, mapping, Tail(entries))

RECURSIVE ApplyWireInputs(_, _, _, _, _)
\* apply, third loop, the inputs of one added node: [status, target]
ApplyWireInputs(target, mapping, node, inputs, ix) ==
  IF ix >= Len(inputs) THEN [status |-> "ok", target |-> target]
  ELSE IF ~MapHas(mapping, inputs[ix + 1]) THEN [status |-> "panic", target |-> target]
  ELSE IF ~AddEdgeOk(target, MapGet(mapping, inputs[ix + 1]), <<node, ix>>)
  THEN [status |-> "err", target |-> target]
  ELSE ApplyWireInputs(AddEdge(target, MapGet(mapping, inputs[ix + 1]), <<node, ix>>),
                       mapping, node, inputs, ix + 1)

RECURSIVE ApplyWires(_, _, _)
\* apply, third loop over all_inputs in the order of iteration
ApplyWires(target, mapping, entries) ==
  IF entries = <<>> THEN [status |-> "ok", target |-> target]
  ELSE LET done == ApplyWireInputs(target, mapping, Head(entries)[1], Head(entries)[2], 0)
       IN IF done.status # "ok" THEN done
          ELSE ApplyWires(done.target, mapping, Tail(entries))

RECURSIVE ApplyObliterate(_, _)
\* apply, fourth loop: node_mut(node).op = create_dummy()
ApplyObliterate(target, obliterate) ==
  IF obliterate = <<>> THEN [status |-> "ok", target |-> target]
  ELSE IF ~(Head(obliterate) < Len(target.nodes)) THEN [status |-> "panic", target |-> target]
  ELSE ApplyObliterate([target EXCEPT !.nodes[Head(obliterate) + 1].op = "Dummy"],
                       Tail(obliterate))

\* the all_inputs map apply builds for the patch on the target
ApplyAllInputs(self, target) ==
  ApplyClones(self.model.nodes, 0, target, self.incoming, {}).all_inputs

\* an apply whose third loop runs before the second: the inputs of the added
\* nodes are wired, then the outlets are shunted
ApplyWiredFirst(self, target, shunt_order, wire_order) ==
  LET cloned == ApplyClones(self.model.nodes, 0, target, self.incoming, {})
      wired == ApplyWires(cloned.target, cloned.mapping, wire_order)
      shunted == ApplyShunts(wired.target, cloned.mapping, shunt_order)
      obliterated == ApplyObliterate(shunted.target, self.obliterate)
  IN IF wired.status # "ok"
     THEN [status |-> wired.status, target |-> wired.target,
           arities |-> <<Arity(cloned.target)>>]
     ELSE IF shunted.status # "ok"
     THEN [status |-> shunted.status, target |-> shunted.target,
           arities |-> <<Arity(cloned.target), Arity(wired.target)>>]
     ELSE IF obliterated.status # "ok"
     THEN [status |-> obliterated.status, target |-> obliterated.target,
           arities |-> <<Arity(cloned.target), Arity(wired.target), Arity(shunted.target)>>]
     ELSE [status |-> "ok", target |-> obliterated.target,
           arities |-> <<Arity(cloned.target), Arity(wired.target), Arity(shunted.target),
                         Arity(obliterated.target)>>]

\* ModelPatch::apply, the two HashMaps being iterated in the given orders:
\* [status, target, arities], arities being the arity of the target at each
\* of the debug_assert_eq! pairs that were reached
Apply(self, target, shunt_order, wire_order) ==
  LET cloned == ApplyClones(self.model.nodes, 0, target, self.incoming, {})
      shunted == ApplyShunts(cloned.target, cloned.mapping, shunt_order)
      wired == ApplyWires(shunted.target, cloned.mapping, wire_order)
      obliterated == ApplyObliterate(wired.target, self.obliterate)
  IN IF shunted.status # "ok"
     THEN [status |-> shunted.status, target |-> shunted.target,
           arities |-> <<Arity(cloned.target)>>]
     ELSE IF wired.status # "ok"
     THEN [status |-> wired.status, target |-> wired.target,
           arities |-> <<Arity(cloned.target), Arity(shunted.target)>>]
     ELSE IF obliterated.status # "ok"
     THEN [status |-> obliterated.status, target |-> obliterated.target,
           arities |-> <<Arity(cloned.target), Arity(shunted.target), Arity(wired.target)>>]
     ELSE [status |-> "ok", target |-> obliterated.target,
           arities |-> <<Arity(cloned.target), Arity(shunted.target), Arity(wired.target),
                         Arity(obliterated.target)>>]

RECURSIVE EvalVisit(_, _, _, _)
RECURSIVE EvalVisitAll(_, _, _, _)
\* eval_order, the visit of one node: its producers first, in the order of its
\* inputs, then the node; [ok, order], not ok when the node is reached again
\* through its own consumers
EvalVisit(model, node, acc, path) ==
  IF ~acc.ok \/ node \in SeqToSet(acc.order) THEN acc
  ELSE IF node \in path THEN [ok |-> FALSE, order |-> acc.order]
  ELSE LET inputs == model.nodes[node + 1].inputs
           producers == [i \in 1..Len(inputs) |-> inputs[i][1]]
           sub == EvalVisitAll(model, producers, acc, path \cup {node})
       IN IF sub.ok THEN [ok |-> TRUE, order |-> Append(sub.order, node)] ELSE sub

EvalVisitAll(model, nodes, acc, path) ==
  IF nodes = <<>> THEN acc
  ELSE EvalVisitAll(model, Tail(nodes), EvalVisit(model, Head(nodes), acc, path), path)

\* ModelImpl::eval_order: a topological order of the nodes the outputs depend
\* on, found from the outputs in their order
EvalOrder(model) ==
  EvalVisitAll(model, [i \in 1..Len(model.outputs) |-> model.outputs[i][1]],
               [ok |-> TRUE, order |-> <<>>], {})

\* O2::try_from(&node.op): the op of the source model as an op of the target
\* model's kind
ConvertOp(op) == <<"O2", op>>

\* TI2::try_from(&of.fact): the fact of the source model as a fact of the
\* target model's kind
ConvertFact(fact) == <<"TI2", fact>>

RECURSIVE TranslateInputs(_, _, _, _, _)
\* IntoTranslator::translate_node, the add_edge loop: [status, target]
TranslateInputs(target, mapping, new_id, inputs, ix) ==
  IF ix >= Len(inputs) THEN [status |-> "ok", target |-> target]
  ELSE IF ~MapHas(mapping, inputs[ix + 1]) THEN [status |-> "panic", target |-> target]
  ELSE IF ~AddEdgeOk(target, MapGet(mapping, inputs[ix + 1]), <<new_id, ix>>)
  THEN [status |-> "err", target |-> target]
  ELSE TranslateInputs(AddEdge(target, MapGet(mapping, inputs[ix + 1]), <<new_id, ix>>),
                       mapping, new_id, inputs, ix + 1)

\* IntoTranslator::translate_node: [status, target, outlets]
TranslateNode(node, target, mapping) ==
  LET new_id == Len(target.nodes)
      facts == [i \in 1..Len(node.outputs) |-> ConvertFact(node.outputs[i].fact)]
      added == AddNode(target, node.name, ConvertOp(node.op), facts)
      edged == TranslateInputs(added, mapping, new_id, node.inputs, 0)
  IN [status |-> edged.status, target |-> edged.target,
      outlets |-> [i \in 1..Len(node.outputs) |-> <<new_id, i - 1>>]]

RECURSIVE CopyLabels(_, _, _, _, _)
\* translate_model_with_mappings, the loop over the outlets of a translated
\* node: [target, mapping]
CopyLabels(source, old_id, outlets, ix, acc) ==
  IF ix >= Len(outlets) THEN acc
  ELSE LET label == OutletLabel(source, <<old_id, ix>>)
           mapped == MapInsert(acc.mapping, <<old_id, ix>>, outlets[ix + 1])
           labelled == IF label = {} THEN acc.target
                       ELSE SetOutletLabel(acc.target, outlets[ix + 1],
                                           CHOOSE l \in label : TRUE)
       IN CopyLabels(source, old_id, outlets, ix + 1,
                     [target |-> labelled, mapping |-> mapped])

RECURSIVE TranslateOrder(_, _, _)
\* translate_model_with_mappings, the loop over eval_order:
\* [status, target, mapping]
TranslateOrder(source, order, acc) ==
  IF order = <<>> \/ acc.status # "ok" THEN acc
  ELSE LET old_id == Head(order)
           done == TranslateNode(source.nodes[old_id + 1], acc.target, acc.mapping)
           kept == CopyLabels(source, old_id, done.outlets, 0,
                              [target |-> done.target, mapping |-> acc.mapping])
       IN IF done.status # "ok"
          THEN [status |-> done.status, target |-> done.target, mapping |-> acc.mapping]
          ELSE TranslateOrder(source, Tail(order),
                              [status |-> "ok", target |-> kept.target,
                               mapping |-> kept.mapping])

\* a loop over source inputs that translates nothing
TranslateNoUseless(source, inputs, acc) == acc

RECURSIVE TranslateUseless(_, _, _)
\* translate_model_with_mappings, the loop over the inputs that eval_order
\* left out: [status, target, mapping]
TranslateUseless(source, inputs, acc) ==
  IF inputs = <<>> \/ acc.status # "ok" THEN acc
  ELSE IF MapHas(acc.mapping, Head(inputs)) THEN TranslateUseless(source, Tail(inputs), acc)
  ELSE LET done == TranslateNode(source.nodes[Head(inputs)[1] + 1], acc.target, acc.mapping)
       IN IF done.status # "ok"
          THEN [status |-> done.status, target |-> done.target, mapping |-> acc.mapping]
          ELSE TranslateUseless(source, Tail(inputs),
                                [status |-> "ok", target |-> done.target,
                                 mapping |-> MapInsert(acc.mapping, Head(inputs),
                                                       done.outlets[1])])

\* translate_model_with_mappings: [status, target, mapping]; indexing the
\* mapping with an outlet it does not hold panics
TranslateModel(source) ==
  LET order == EvalOrder(source)
      visited == TranslateOrder(source, order.order,
                                [status |-> "ok", target |-> EmptyModel, mapping |-> {}])
      all == TranslateUseless(source, source.inputs, visited)
  IN IF ~order.ok THEN [status |-> "err", target |-> EmptyModel, mapping |-> {}]
     ELSE IF all.status # "ok" THEN all
     ELSE IF \E i \in 1..Len(source.inputs) : ~MapHas(all.mapping, source.inputs[i])
     THEN [status |-> "panic", target |-> all.target, mapping |-> all.mapping]
     ELSE IF \E i \in 1..Len(source.outputs) : ~MapHas(all.mapping, source.outputs[i])
     THEN [status |-> "panic", target |-> all.target, mapping |-> all.mapping]
     ELSE [status |-> "ok",
           target |-> [all.target EXCEPT
                         !.inputs = [i \in 1..Len(source.inputs) |->
                                       MapGet(all.mapping, source.inputs[i])],
                         !.outputs = [i \in 1..Len(source.outputs) |->
                                        MapGet(all.mapping, source.outputs[i])]],
           mapping |-> all.mapping]

(***************************************************************************)
(* The declutter hooks of Pad, Slice and Downsample and the fixed-point    *)
(* driver that applies their patches.                                      *)
(* src/core/src/ops/array/pad.rs, src/core/src/ops/array/slice.rs,         *)
(* src/core/src/ops/downsample/mod.rs, src/core/src/ops/downsample/array.rs *)
(***************************************************************************)
\* Ok(None)
NoPatch == [ok |-> TRUE, some |-> FALSE, patch |-> DefaultPatch]

\* what a hook returns for the result of a patch constructor followed by ?
SomePatch(r) == [ok |-> r.ok, some |-> r.ok, patch |-> r.patch]

\* the kind of the op of a node
OpKind(model, node) ==
  IF model.nodes[node + 1].op = "Source" THEN "Source"
  ELSE NamedOps[model.nodes[node + 1].op].kind

\* Pad::declutter: [ok, some, patch]
PadDeclutter(model, node) ==
  LET self == NamedOps[model.nodes[node + 1].op]
  IN IF \A ix \in 1..Len(self.pads) : self.pads[ix][1] = 0 /\ self.pads[ix][2] = 0
     THEN SomePatch(ShuntOneOp(model, node))
     ELSE NoPatch

\* ModelImpl::single_prec: <<>> or <<prec>>, the producer of the only input
\* of the node when the node is its only successor
SinglePrec(model, id) ==
  LET inputs == model.nodes[id + 1].inputs
      prec == inputs[1][1]
      outputs == model.nodes[prec + 1].outputs
  IN IF Len(inputs) # 1 THEN <<>>
     ELSE IF SumSeq([i \in 1..Len(outputs) |-> Len(outputs[i].successors)]) # 1 THEN <<>>
     ELSE <<prec>>

\* the patch of a pull: it taps the outlet, wires the two ops on it one
\* after the other, each with the fact its output_facts gives, and shunts
\* the output of the Downsample node by the second; [ok, some, patch]
WirePulled(model, outlet, down_node, names, ops) ==
  LET tap == TapModel(DefaultPatch, model, outlet)
      first_shape == OutputShape(ops[1], NamedShapes[OutletFact(model, outlet)])
      first == PatchWireNode(tap.patch, names[1], OpName(ops[1]), <<tap.id>>,
                             FactName(first_shape))
      first_id == <<Len(tap.patch.model.nodes), 0>>
      second == PatchWireNode(first, names[2], OpName(ops[2]), <<first_id>>,
                              FactName(OutputShape(ops[2], first_shape)))
      second_id == <<Len(first.model.nodes), 0>>
  IN IF ~tap.ok THEN [ok |-> FALSE, some |-> FALSE, patch |-> DefaultPatch]
     ELSE SomePatch(ShuntOutside(second, model, <<down_node, 0>>, second_id))

\* a pull that wires the Slice and the Downsample again as they were
PullInPlacePatch(model, slice_node, slice_op, down_node, down_op) ==
  IF down_op.axis # slice_op.axis THEN NoPatch
  ELSE WirePulled(model, model.nodes[slice_node + 1].inputs[1], down_node,
                  <<model.nodes[slice_node + 1].name, model.nodes[down_node + 1].name>>,
                  <<slice_op, down_op>>)

\* the ops pull_downsample_over_slice wires: the Downsample with the start
\* of the slice folded in its modulo, and the Slice of final_len positions
\* from left, final_len being read on the fact of the Downsample node
PulledOps(slice_op, down_op, final_len) ==
  <<[kind |-> "Downsample", axis |-> down_op.axis, stride |-> down_op.stride,
     modulo |-> (down_op.modulo + slice_op.start) % down_op.stride],
    [kind |-> "Slice", axis |-> slice_op.axis,
     start |-> (down_op.modulo + slice_op.start) \div down_op.stride,
     end |-> final_len + (down_op.modulo + slice_op.start) \div down_op.stride]>>

\* pull_downsample_over_slice: [ok, some, patch]; on the input of the slice,
\* the new Downsample under the name of the Downsample node, then the new
\* Slice under the name of the Slice node
PullOverSlicePatch(model, slice_node, slice_op, down_node, down_op) ==
  IF down_op.axis # slice_op.axis THEN NoPatch
  ELSE WirePulled(model, model.nodes[slice_node + 1].inputs[1], down_node,
                  <<model.nodes[down_node + 1].name, model.nodes[slice_node + 1].name>>,
                  PulledOps(slice_op, down_op,
                            NamedShapes[OutletFact(model, <<down_node, 0>>)][down_op.axis + 1]))

\* pull_downsample_up: only a Slice is pulled over, Pad and Downsample
\* declare no invariant
PullDownsampleUp(model, down_node) ==
  LET prec == SinglePrec(model, down_node)
  IN IF prec = <<>> THEN NoPatch
     ELSE IF OpKind(model, prec[1]) = "Slice"
     THEN PullOverSlicePatch(model, prec[1], NamedOps[model.nodes[prec[1] + 1].op],
                        down_node, NamedOps[model.nodes[down_node + 1].op])
     ELSE NoPatch

\* Downsample::declutter: [ok, some, patch]
DownsampleDeclutter(model, node) ==
  IF NamedOps[model.nodes[node + 1].op].stride = 1
  THEN SomePatch(ShuntOneOp(model, node))
  ELSE PullDownsampleUp(model, node)

\* TypedOp::declutter of the node, a Source having the default hook
Declutter(model, node) ==
  CASE OpKind(model, node) = "Pad" -> PadDeclutter(model, node)
    [] OpKind(model, node) = "Slice" -> SliceDeclutter(model, node)
    [] OpKind(model, node) = "Downsample" -> DownsampleDeclutter(model, node)
    [] OTHER -> NoPatch

\* the nodes of the order whose hook does not return Ok(None)
Cluttered(model, order) ==
  SelectSeq(order, LAMBDA node : LET r == Declutter(model, node) IN ~r.ok \/ r.some)

(***************************************************************************)
(* Bounds of the exploration and the initial states of the machines. Each  *)
(* specification runs one machine and holds the others idle.               *)
(***************************************************************************)
\* pulse sizes, delays, overlaps and number of evals of the Delay machine
MaxPulse == 3

MaxDelay == 4

MaxOverlap == 2

MaxEvals == 4

\* constructors applied at most to the first / the second TDim tree
MaxOpsA == 3

MaxOpsB == 2

\* literals added, factors and divisors used by the constructors
DimLiterals == {1, 2}

DimFactors == {-1, 2}

DimDivisors == {2, 4}

\* stream lengths the trees are evaluated at
MaxStream == 12

StreamValues == (-MaxStream)..MaxStream

\* stream lengths, delay of the feeder, paddings, strides and number of
\* pulses of the pulsification machine
MaxLen == 4

MaxInDelay == 2

MaxBefore == 3

MaxAfter == 1

MaxStride == 3

MaxRuns == 5

\* input lengths of the crop machine
MaxCropLen == 6

\* offsets, added integers and divisors the identities are built from
MaxOffset == 4

MaxShift == 2

MaxDivisor == 4

\* the offsets of tests::reduce_div_bug_0
TestOffsets == {21, 23}

\* constructors applied to one tree, and the integers, factors and divisors
\* they are given
MaxBuilds == 2

MaxInteger == 2

MaxFactor == 2

MaxQuotient == 3

\* the integers given to the constructors: small ones and the largest i32
BuildIntegers == (0..MaxInteger) \cup {I32Max}

\* the maps eval_with is given: nothing bound, or S bound
BuildValues == {<<>>} \cup {[x \in {"S"} |-> s] : s \in 0..MaxInteger}

\* delay of each of two Delays in a row
MaxChained == 2

\* sources tapped, nodes wired, shunts and obliterations of one patch, calls
\* made to build patches, and patches applied
MaxTaps == 2

MaxWired == 1

MaxShunts == 2

MaxObliterate == 1

MaxCalls == 3

MaxApplies == 2

\* Delay::new + Delay::state: the buffer is allocated uninitialized
StartDelay ==
  /\ dlOp \in [pulse : 1..MaxPulse, delay : 0..MaxDelay, overlap : 0..MaxOverlap]
  /\ dlBuffer \in [1..(dlOp.delay + dlOp.overlap) -> UninitValues]
  /\ dlCount = 0
  /\ dlOutput = <<>>

IdleDelay ==
  /\ dlOp = [pulse |-> 1, delay |-> 0, overlap |-> 0]
  /\ dlBuffer = <<>>
  /\ dlCount = 0
  /\ dlOutput = <<>>

StartDim ==
  /\ dimA = Sym /\ dimB = Sym
  /\ redA = Reduce(Sym) /\ redB = Reduce(Sym)
  /\ opsA = 0 /\ opsB = 0

IdleDim == StartDim

\* the Pad ops explored: rank 2, any mode
PadOps ==
  {[kind |-> "Pad", pads |-> <<<<b, a>>, <<o, 0>>>>, mode |-> m] :
     b \in 0..MaxBefore, a \in 0..MaxAfter, o \in {0, 1},
     m \in {"Constant", "Edge", "Reflect"}}

\* the Slice ops explored: on the stream axis (0) of length len, or on axis 1
\* of size 2
SliceOps(len) ==
  UNION {{[kind |-> "Slice", axis |-> 0, start |-> s, end |-> e] : e \in s..len} :
           s \in 0..len}
  \cup {[kind |-> "Slice", axis |-> 1, start |-> 0, end |-> 1],
        [kind |-> "Slice", axis |-> 1, start |-> 1, end |-> 2]}

\* the Downsample ops explored: on the stream axis
DownsampleOps ==
  {op \in [kind : {"Downsample"}, axis : {0}, stride : 1..MaxStride,
           modulo : 0..(MaxStride - 1)] : op.modulo < op.stride}

\* a normalized op fed by a streaming outlet of some pulse and delay; nothing
\* is pulsified yet
StartPulse ==
  /\ puLen \in 1..MaxLen
  /\ puFact \in [axis : {0}, shape : {<<p, 2>> : p \in 1..MaxPulse},
                 delay : 0..MaxInDelay, dim : {Sym}]
  /\ puKnown \in {<<>>, <<puLen>>}
  /\ \/ puOp \in PadOps
     \/ puOp \in SliceOps(puLen)
     \/ puOp \in DownsampleOps
  /\ puResult = "none"
  /\ puTarget = <<>>
  /\ puStates = "none"
  /\ puCount = 0
  /\ puOut = <<>>

IdlePulse ==
  /\ puLen = 1
  /\ puFact = [axis |-> 0, shape |-> <<1, 2>>, delay |-> 0, dim |-> Sym]
  /\ puKnown = <<>>
  /\ puOp = [kind |-> "Slice", axis |-> 1, start |-> 0, end |-> 1]
  /\ puResult = "none"
  /\ puTarget = <<>>
  /\ puStates = "none"
  /\ puCount = 0
  /\ puOut = <<>>

\* the numbers of inputs of a wired node
InputCounts == {1, 2}

\* the facts of the outlets
Facts == {"F1", "F2"}

\* a chain: a source, two ops, the last one being the model output; the
\* outlet in the middle is labelled
HostChain ==
  LET sourced == AddSource(EmptyModel, "x", "F1")
      first == AddEdge(AddNode(sourced, "a", "A", <<"F1">>), <<0, 0>>, <<1, 0>>)
      second == AddEdge(AddNode(first, "b", "B", <<"F2">>), <<1, 0>>, <<2, 0>>)
  IN SetOutletLabel([second EXCEPT !.outputs = <<<<2, 0>>>>], <<1, 0>>, "mid")

\* two sources, the second one useless and labelled; an op reading the first
\* source twice; the outputs are the op and the first source
HostJoin ==
  LET one == AddSource(EmptyModel, "x", "F1")
      two == AddSource(one, "y", "F1")
      added == AddNode(two, "a", "A", <<"F1">>)
      joined == AddEdge(AddEdge(added, <<0, 0>>, <<2, 0>>), <<0, 0>>, <<2, 1>>)
  IN SetOutletLabel([joined EXCEPT !.outputs = <<<<2, 0>>, <<0, 0>>>>], <<1, 0>>, "aux")

\* another model than the host: a source and an op with two outputs
Foreign ==
  LET sourced == AddSource(EmptyModel, "x", "F1")
      split == AddEdge(AddNode(sourced, "s", "Split", <<"F1", "F2">>), <<0, 0>>, <<1, 0>>)
  IN [split EXCEPT !.outputs = <<<<1, 0>>, <<1, 1>>>>]

\* the names of the Slice ops of the graph models
GraphSlices == {"Slice(1,0..3)", "Slice(1,1..3)", "Slice(0,0..2)"}

\* the fact Slice::output_facts gives for an input of fact F1
SlicedFact(op) ==
  LET self == SliceParams(op)
      shape == [FactShape("F1") EXCEPT ![self.axis + 1] = self.end - self.start]
  IN CHOOSE f \in Facts : FactShape(f) = shape

\* a source, a Slice of it, an op reading the slice twice; the outputs are
\* the op and the slice, which is labelled
HostSlice(op) ==
  LET sourced == AddSource(EmptyModel, "x", "F1")
      sliced == AddEdge(AddNode(sourced, "s", op, <<SlicedFact(op)>>), <<0, 0>>, <<1, 0>>)
      added == AddNode(sliced, "a", "A", <<"F1">>)
      joined == AddEdge(AddEdge(added, <<1, 0>>, <<2, 0>>), <<1, 0>>, <<2, 1>>)
  IN SetOutletLabel([joined EXCEPT !.outputs = <<<<2, 0>>, <<1, 0>>>>], <<1, 0>>, "cut")

\* a host model, an empty patch, nothing called yet
StartGraph ==
  /\ host \in {HostChain, HostJoin} \cup {HostSlice(op) : op \in GraphSlices}
  /\ patch = DefaultPatch
  /\ lastCall = [op |-> "none"]
  /\ calls = 0
  /\ applies = 0
  /\ translated = [status |-> "none"]

IdleGraph ==
  /\ host = EmptyModel
  /\ patch = DefaultPatch
  /\ lastCall = [op |-> "none"]
  /\ calls = 0
  /\ applies = 0
  /\ translated = [status |-> "none"]

\* tests::crop_then_down: an input of len frames, Slice::new(0, left, len -
\* right) then Downsample::new(0, stride, modulo)
StartCrop ==
  /\ \E len \in 0..MaxCropLen : \E left \in 0..len : \E right \in 0..(len - left) :
     \E stride \in 1..MaxStride : \E modulo \in 0..(stride - 1) :
       crOps = [len |-> len,
                slice |-> [kind |-> "Slice", axis |-> 0, start |-> left, end |-> len - right],
                down |-> [kind |-> "Downsample", axis |-> 0, stride |-> stride,
                          modulo |-> modulo]]
  /\ crPatch = <<>>
  /\ crExpected = <<>>
  /\ crFound = <<>>

IdleCrop ==
  /\ crOps = [len |-> 0,
              slice |-> [kind |-> "Slice", axis |-> 0, start |-> 0, end |-> 0],
              down |-> [kind |-> "Downsample", axis |-> 0, stride |-> 1, modulo |-> 0]]
  /\ crPatch = <<>>
  /\ crExpected = <<>>
  /\ crFound = <<>>

\* the integers of an identity: an offset c, an added integer k, divisors q, p
StartLaws ==
  /\ \E c \in ((-MaxOffset)..MaxOffset) \cup TestOffsets : \E k \in (-MaxShift)..MaxShift :
     \E q \in 1..MaxDivisor : \E p \in 1..MaxDivisor :
       lwIn = [c |-> c, k |-> k, q |-> q, p |-> p]
  /\ lwLaw = "none"
  /\ lwLeft = <<>>
  /\ lwRight = <<>>

IdleLaws ==
  /\ lwIn = [c |-> 0, k |-> 0, q |-> 1, p |-> 1]
  /\ lwLaw = "none"
  /\ lwLeft = <<>>
  /\ lwRight = <<>>

\* a tree made of a symbol or of an integer, in a build that checks integer
\* overflows (debug) or not (release)
StartBuild ==
  /\ buChecks \in BOOLEAN
  /\ buTree \in {<<Sym>>} \cup {<<Val(v)>> : v \in BuildIntegers}
  /\ buCount = 0
  /\ buInt = <<>>
  /\ buEval = <<>>

IdleBuild ==
  /\ buChecks = FALSE
  /\ buTree = <<Val(0)>>
  /\ buCount = 0
  /\ buInt = <<>>
  /\ buEval = <<>>

\* the fact of the source of tests::test_two_delays
SourceFact(pulse) == [shape |-> <<pulse>>, axis |-> 0, dim |-> Sym, delay |-> 0]

\* tests::test_two_delays: source -> Delay(d1, 0) -> Delay(d2, 0), and next to
\* it source -> Delay(d1 + d2, 0), every buffer being uninitialized
StartTwo ==
  /\ tdIn \in [pulse : 1..MaxPulse, d1 : 0..MaxChained, d2 : 0..MaxChained]
  /\ LET fact_0 == SourceFact(tdIn.pulse)
         first == WireNode(<<>>, DelayNew(fact_0, tdIn.d1, 0), fact_0)
     IN /\ tdChain = WireNode(first, DelayNew(first[1].fact, tdIn.d2, 0), first[1].fact)
        /\ tdSingle = WireNode(<<>>, DelayNew(fact_0, tdIn.d1 + tdIn.d2, 0), fact_0)
  /\ \E s1 \in InitialStates(tdChain[1].op) : \E s2 \in InitialStates(tdChain[2].op) :
       tdStates = <<s1, s2>>
  /\ \E s \in InitialStates(tdSingle[1].op) : tdState = <<s>>
  /\ tdCount = 0
  /\ tdRuns = 0
  /\ tdOut = <<>>
  /\ tdOne = <<>>

IdleTwo ==
  /\ tdIn = [pulse |-> 1, d1 |-> 0, d2 |-> 0]
  /\ tdChain = <<>>
  /\ tdStates = <<>>
  /\ tdSingle = <<>>
  /\ tdState = <<>>
  /\ tdCount = 0
  /\ tdRuns = 0
  /\ tdOut = <<>>
  /\ tdOne = <<>>

\* the largest pulse given with --pulse
MaxPulseArg == 2

\* possible_values of --pass
PassValues ==
  {"load", "analyse", "incorporate", "type", "declutter", "pulse-normalized", "pulse",
   "pulse-to-type", "pulse-declutter", "optimize"}

\* a command line: --pass, -O and --pulse are each optional
StartPipe ==
  /\ piArgs \in [pass : {<<>>} \cup {<<v>> : v \in PassValues},
                 optimize : BOOLEAN,
                 pulse : {<<>>} \cup {<<n>> : n \in 1..MaxPulseArg}]
  /\ piDone = <<>>
  /\ piReturn = <<>>

IdlePipe ==
  /\ piArgs = [pass |-> <<>>, optimize |-> FALSE, pulse |-> <<>>]
  /\ piDone = <<>>
  /\ piReturn = <<>>

\* skipped iterations, chunk of the scanned input, length of the scanned
\* input and number of evals of the scan machine
MaxSkip == 2

MaxChunk == 2

MaxScanLen == 2

MaxScanEvals == 2

\* the tensors given for the state initializer on input slot 1
ScanInitTensors == {<<5>>, <<6>>}

\* the input and output mappings of the scans explored; every one has a
\* scanned input on slot 0 and as many state outputs as State inputs
ScanMappings(chunk) ==
  {[input_mapping |-> <<ScanInput(0, chunk), StateInput(FromInput(1))>>,
    output_mapping |-> <<OutputMapping(<<0>>, <<>>, TRUE)>>],
   [input_mapping |-> <<StateInput(Value(<<3>>)), ScanInput(0, chunk),
                        StateInput(FromInput(1))>>,
    output_mapping |-> <<OutputMapping(<<>>, <<0>>, TRUE), OutputMapping(<<1>>, <<>>, FALSE),
                         OutputMapping(<<>>, <<>>, TRUE)>>],
   [input_mapping |-> <<ScanInput(0, chunk), FullInput(1)>>,
    output_mapping |-> <<OutputMapping(<<0>>, <<>>, FALSE)>>],
   [input_mapping |-> <<StateInput(FromInput(1)), StateInput(Value(<<3>>)), FullInput(1),
                        ScanInput(0, chunk)>>,
    output_mapping |-> <<OutputMapping(<<>>, <<>>, TRUE), OutputMapping(<<>>, <<0>>, TRUE)>>]}

\* LirScanOpParams::new
ScanOps ==
  {[skip |-> skip, backward |-> backward, input_mapping |-> m.input_mapping,
    output_mapping |-> m.output_mapping] :
     skip \in 0..MaxSkip, backward \in BOOLEAN,
     m \in UNION {ScanMappings(chunk) : chunk \in 1..MaxChunk}}

\* the inputs of an eval: the scanned tensor on slot 0, whose frames are 1,
\* 2, ..., and the tensor of slot 1
ScanEvalInputs ==
  {<<[j \in 1..len |-> j], initial>> : len \in 0..MaxScanLen, initial \in ScanInitTensors}

\* LirScan::state: position 0, an empty hidden state
StartScan ==
  /\ scOp \in ScanOps
  /\ scCalls = <<>>
  /\ scPosition = 0
  /\ scHidden = <<>>
  /\ scLog = <<>>
  /\ scOutputs = <<>>
  /\ scResult = "none"

IdleScan ==
  /\ scOp = [skip |-> 0, backward |-> FALSE, input_mapping |-> <<>>, output_mapping |-> <<>>]
  /\ scCalls = <<>>
  /\ scPosition = 0
  /\ scHidden = <<>>
  /\ scLog = <<>>
  /\ scOutputs = <<>>
  /\ scResult = "none"

\* the length of the first axis of the input of the typed models
MaxTypedDim == 4

\* the number of ops wired in a typed model
MaxTypedOps == 3

\* the generation counter of the declutter driver: the patches one run may
\* apply
MaxPatches == 6

\* the number of declutter runs made on a model
MaxDeclutterRuns == 2

\* the ops wired on an outlet of the given shape: a Pad of nothing or of one
\* position before, a Slice of the whole first axis, or that drops its
\* first or its last position, or the last one of the second axis, a
\* Downsample of the first axis of stride 1 or 2
WiredOps(shape) ==
  {op \in TypedOps :
     \/ op.kind = "Pad" /\ op.pads[1][2] = 0
     \/ /\ op.kind = "Slice"
        /\ <<op.start, op.end>> \in
             IF op.axis = 0 THEN {<<0, shape[1]>>, <<0, shape[1] - 1>>, <<1, shape[1]>>}
             ELSE {<<0, shape[2] - 1>>}
        /\ op.start < op.end
     \/ op.kind = "Downsample" /\ op.axis = 0 /\ op.stride <= 2}

\* a typed model that holds its input only
StartDeclutter ==
  /\ deModel = AddSource(EmptyModel, "0", FactName(<<MaxTypedDim, 2>>))
  /\ deStatus = "building"
  /\ dePatches = 0
  /\ deRuns = 0
  /\ deFirst = EmptyModel

IdleDeclutter ==
  /\ deModel = EmptyModel
  /\ deStatus = "done"
  /\ dePatches = 0
  /\ deRuns = MaxDeclutterRuns
  /\ deFirst = EmptyModel
(***************************************************************************)
(* TDim machine: two trees are grown with the raw constructors (as the     *)
(* tests' add / mul / div helpers do) and reduced.                         *)
(***************************************************************************)
\* tests::add(a, Val(c)) / tests::mul(p, a) / tests::div(a, q) on the first tree
GrowA ==
  /\ opsA < MaxOpsA
  /\ \E e \in {Add(<<dimA, Val(c)>>) : c \in DimLiterals}
            \cup {Mul(p, dimA) : p \in DimFactors}
            \cup {Div(dimA, q) : q \in DimDivisors} :
       /\ dimA' = e
       /\ redA' = Reduce(e)
  /\ opsA' = opsA + 1
  /\ UNCHANGED <<dimB, redB, opsB>>
  /\ UNCHANGED <<varsDelay, varsPulse, varsGraph, varsCrop, varsLaws, varsBuild, varsTwo, varsPipe, varsScan, varsDeclutter>>

\* the same on the second tree
GrowB ==
  /\ opsB < MaxOpsB
  /\ \E e \in {Add(<<dimB, Val(c)>>) : c \in DimLiterals}
            \cup {Mul(p, dimB) : p \in DimFactors}
            \cup {Div(dimB, q) : q \in DimDivisors} :
       /\ dimB' = e
       /\ redB' = Reduce(e)
  /\ opsB' = opsB + 1
  /\ UNCHANGED <<dimA, redA, opsA>>
  /\ UNCHANGED <<varsDelay, varsPulse, varsGraph, varsCrop, varsLaws, varsBuild, varsTwo, varsPipe, varsScan, varsDeclutter>>

NextDim == GrowA \/ GrowB

InitDim == StartDim /\ IdleDelay /\ IdlePulse /\ IdleGraph /\ IdleCrop /\ IdleLaws /\ IdleBuild /\ IdleTwo /\ IdlePipe /\ IdleScan /\ IdleDeclutter

SpecDim == InitDim /\ [][NextDim]_vars

(***************************************************************************)
(* Delay machine: one Delay state is fed the successive pulses of a stream *)
(***************************************************************************)
\* DelayState::eval on the next pulse of the stream
DelayEval ==
  /\ dlCount < MaxEvals
  /\ LET input == PulseInput(dlCount, dlOp.pulse)
     IN /\ dlOutput' = DelayOutput(dlOp, dlBuffer, input)
        /\ dlBuffer' = DelayMaintain(dlOp, dlBuffer, input)
  /\ dlCount' = dlCount + 1
  /\ UNCHANGED dlOp
  /\ UNCHANGED <<varsDim, varsPulse, varsGraph, varsCrop, varsLaws, varsBuild, varsTwo, varsPipe, varsScan, varsDeclutter>>

NextDelay == DelayEval

InitDelay == StartDelay /\ IdleDim /\ IdlePulse /\ IdleGraph /\ IdleCrop /\ IdleLaws /\ IdleBuild /\ IdleTwo /\ IdlePipe /\ IdleScan /\ IdleDeclutter

SpecDelay == InitDelay /\ [][NextDelay]_vars

(***************************************************************************)
(* Pulsification machine: one normalized op is pulsified, the states of    *)
(* the pulsed nodes are created and the stream is run through them pulse   *)
(* by pulse.                                                               *)
(***************************************************************************)
RECURSIVE ChainInitialStates(_)
\* the states SimpleState::new may create for the nodes of the target
ChainInitialStates(target) ==
  IF target = <<>> THEN {<<>>}
  ELSE {<<h>> \o t : h \in InitialStates(Head(target).op),
                     t \in ChainInitialStates(Tail(target))}

\* TypedOp::pulsify of the op, into an empty target
PulsifyOp ==
  /\ puResult = "none"
  /\ LET r == Pulsify(puOp, puFact, puTarget)
     IN /\ puResult' = IF r.ok THEN "ok" ELSE "err"
        /\ puTarget' = r.target
  /\ UNCHANGED <<puOp, puFact, puLen, puKnown, puStates, puCount, puOut>>
  /\ UNCHANGED <<varsDim, varsDelay, varsGraph, varsCrop, varsLaws, varsBuild, varsTwo, varsPipe, varsScan, varsDeclutter>>

\* SimpleState::new on the pulsed model
NewState ==
  /\ puResult = "ok"
  /\ puStates = "none"
  /\ puStates' \in ChainInitialStates(puTarget)
  /\ UNCHANGED <<puOp, puFact, puLen, puKnown, puResult, puTarget, puCount, puOut>>
  /\ UNCHANGED <<varsDim, varsDelay, varsGraph, varsCrop, varsLaws, varsBuild, varsTwo, varsPipe, varsScan, varsDeclutter>>

\* SimpleState::run on the next pulse of the feeder
RunPulse ==
  /\ puResult = "ok"
  /\ puStates # "none"
  /\ puCount < MaxRuns
  /\ LET p == FactPulse(puFact)
         input == [j \in 1..p |-> FeederFrame(puCount * p + j - 1, puFact.delay, puLen)]
         out == ChainOutput(puTarget, puStates, puKnown, input)
     IN IF out = PanicOutput
        THEN /\ puResult' = "panic"
             /\ UNCHANGED <<puStates, puOut>>
        ELSE /\ puOut' = puOut \o out
             /\ puStates' = ChainStates(puTarget, puStates, puKnown, input)
             /\ UNCHANGED puResult
  /\ puCount' = puCount + 1
  /\ UNCHANGED <<puOp, puFact, puLen, puKnown, puTarget>>
  /\ UNCHANGED <<varsDim, varsDelay, varsGraph, varsCrop, varsLaws, varsBuild, varsTwo, varsPipe, varsScan, varsDeclutter>>

NextPulse == PulsifyOp \/ NewState \/ RunPulse

InitPulse == StartPulse /\ IdleDim /\ IdleDelay /\ IdleGraph /\ IdleCrop /\ IdleLaws /\ IdleBuild /\ IdleTwo /\ IdlePipe /\ IdleScan /\ IdleDeclutter

SpecPulse == InitPulse /\ [][NextPulse]_vars

(***************************************************************************)
(* Graph machine: patches are built against the host with tap_model,       *)
(* wire_node, shunt_outside and obliterate, and applied to it; the host    *)
(* is translated.                                                          *)
(***************************************************************************)
\* the outlets of the model
Outlets(model) ==
  UNION {{<<n, s>> : s \in 0..(Len(model.nodes[n + 1].outputs) - 1)} :
           n \in 0..(Len(model.nodes) - 1)}

\* the outlets a caller names on a model: its outlets, and one that does not
\* exist
NamedOutlets(model) == Outlets(model) \cup {<<Len(model.nodes), 0>>}

\* the number of nodes of the patch that are sources / are not
Taps(p) == Cardinality({i \in 1..Len(p.model.nodes) : p.model.nodes[i].op = "Source"})

Wired(p) == Len(p.model.nodes) - Taps(p)

\* nothing runs once an apply has failed or panicked, or the host has been
\* translated
Running ==
  /\ translated.status = "none"
  /\ ~(lastCall.op = "apply" /\ lastCall.status # "ok")

\* patch.tap_model(model, outlet), on the host or on another model
TapOutlet ==
  /\ Running
  /\ calls < MaxCalls
  /\ Taps(patch) < MaxTaps
  /\ \E model \in {host, Foreign} : \E outlet \in NamedOutlets(model) :
       LET r == TapModel(patch, model, outlet)
       IN /\ patch' = r.patch
          /\ lastCall' = [op |-> "tap_model", ok |-> r.ok]
  /\ calls' = calls + 1
  /\ UNCHANGED <<host, applies, translated>>
  /\ UNCHANGED <<varsDim, varsDelay, varsPulse, varsCrop, varsLaws, varsBuild, varsTwo, varsPipe, varsScan, varsDeclutter>>

\* patch.wire_node(name, op, inputs), the inputs being outlets of the patch;
\* the op gives its output the fact of its first input
WirePatchNode ==
  /\ Running
  /\ calls < MaxCalls
  /\ Wired(patch) < MaxWired
  /\ \E n \in InputCounts : \E inputs \in [1..n -> Outlets(patch.model)] :
       patch' = PatchWireNode(patch, "c", "C", inputs, OutletFact(patch.model, inputs[1]))
  /\ lastCall' = [op |-> "wire_node", ok |-> TRUE]
  /\ calls' = calls + 1
  /\ UNCHANGED <<host, applies, translated>>
  /\ UNCHANGED <<varsDim, varsDelay, varsPulse, varsCrop, varsLaws, varsBuild, varsTwo, varsPipe, varsScan, varsDeclutter>>

\* patch.shunt_outside(host, outlet, by)
ShuntHostOutlet ==
  /\ Running
  /\ calls < MaxCalls
  /\ Cardinality(patch.shunt_outlet_by) < MaxShunts
  /\ \E outlet \in NamedOutlets(host) : \E by \in NamedOutlets(patch.model) :
       LET r == ShuntOutside(patch, host, outlet, by)
       IN /\ patch' = r.patch
          /\ lastCall' = [op |-> "shunt_outside", ok |-> r.ok, outlet |-> outlet, by |-> by,
                          before |-> patch.shunt_outlet_by]
  /\ calls' = calls + 1
  /\ UNCHANGED <<host, applies, translated>>
  /\ UNCHANGED <<varsDim, varsDelay, varsPulse, varsCrop, varsLaws, varsBuild, varsTwo, varsPipe, varsScan, varsDeclutter>>

\* patch.obliterate(node)
ObliterateNode ==
  /\ Running
  /\ calls < MaxCalls
  /\ Len(patch.obliterate) < MaxObliterate
  /\ \E node \in 0..Len(host.nodes) :
       patch' = Obliterate(patch, node)
  /\ lastCall' = [op |-> "obliterate", ok |-> TRUE]
  /\ calls' = calls + 1
  /\ UNCHANGED <<host, applies, translated>>
  /\ UNCHANGED <<varsDim, varsDelay, varsPulse, varsCrop, varsLaws, varsBuild, varsTwo, varsPipe, varsScan, varsDeclutter>>

\* Slice::declutter(host, node) on a Slice node of the host: the patch it
\* returns, if any, is the patch to apply
DeclutterSlice ==
  /\ Running
  /\ calls < MaxCalls
  /\ patch = DefaultPatch
  /\ \E node \in 0..(Len(host.nodes) - 1) :
       /\ host.nodes[node + 1].op \in GraphSlices
       /\ LET r == SliceDeclutter(host, node)
          IN /\ patch' = r.patch
             /\ lastCall' = [op |-> "declutter", ok |-> r.ok, some |-> r.some, node |-> node]
  /\ calls' = calls + 1
  /\ UNCHANGED <<host, applies, translated>>
  /\ UNCHANGED <<varsDim, varsDelay, varsPulse, varsCrop, varsLaws, varsBuild, varsTwo, varsPipe, varsScan, varsDeclutter>>

\* ModelPatch::intercept(host, outlet, name, op, fact): the patch it returns,
\* if any, is the patch to apply. It makes the calls of a tap_model, of a
\* wire_node (add_node, add_edge) and of a shunt_outside.
InterceptOutlet ==
  /\ Running
  /\ calls + 3 <= MaxCalls
  /\ patch = DefaultPatch
  /\ \E outlet \in NamedOutlets(host) : \E fact \in Facts :
       LET r == Intercept(host, outlet, "i", "I", fact)
       IN /\ patch' = r.patch
          /\ lastCall' = [op |-> "intercept", ok |-> r.ok, outlet |-> outlet]
  /\ calls' = calls + 3
  /\ UNCHANGED <<host, applies, translated>>
  /\ UNCHANGED <<varsDim, varsDelay, varsPulse, varsCrop, varsLaws, varsBuild, varsTwo, varsPipe, varsScan, varsDeclutter>>

\* patch.apply(&mut host): the patch is consumed
ApplyPatch ==
  /\ Running
  /\ applies < MaxApplies
  /\ \E shunt_order \in Orders(patch.shunt_outlet_by) :
     \E wire_order \in Orders(ApplyAllInputs(patch, host)) :
       LET r == Apply(patch, host, shunt_order, wire_order)
       IN /\ host' = r.target
          /\ lastCall' = [op |-> "apply", status |-> r.status, before |-> host,
                          patch |-> patch, arities |-> r.arities]
  /\ patch' = DefaultPatch
  /\ applies' = applies + 1
  /\ UNCHANGED <<calls, translated>>
  /\ UNCHANGED <<varsDim, varsDelay, varsPulse, varsCrop, varsLaws, varsBuild, varsTwo, varsPipe, varsScan, varsDeclutter>>

\* every input and output outlet of the model exists
WellFormedIO(model) ==
  /\ \A i \in 1..Len(model.inputs) : ValidOutlet(model, model.inputs[i])
  /\ \A i \in 1..Len(model.outputs) : ValidOutlet(model, model.outputs[i])

\* IntoTranslator.translate_model_with_mappings(&host)
Translate ==
  /\ Running
  /\ patch = DefaultPatch
  /\ WellFormedIO(host)
  /\ translated' = TranslateModel(host)
  /\ UNCHANGED <<host, patch, lastCall, calls, applies>>
  /\ UNCHANGED <<varsDim, varsDelay, varsPulse, varsCrop, varsLaws, varsBuild, varsTwo, varsPipe, varsScan, varsDeclutter>>

NextGraph ==
  \/ TapOutlet \/ WirePatchNode \/ ShuntHostOutlet \/ ObliterateNode
  \/ DeclutterSlice \/ InterceptOutlet \/ ApplyPatch \/ Translate

InitGraph == StartGraph /\ IdleDim /\ IdleDelay /\ IdlePulse /\ IdleCrop /\ IdleLaws /\ IdleBuild /\ IdleTwo /\ IdlePipe /\ IdleScan /\ IdleDeclutter

SpecGraph == InitGraph /\ [][NextGraph]_vars

(***************************************************************************)
(* Crop machine: a Slice followed by a Downsample is run, rewritten by     *)
(* pull_downsample_over_slice and run again, as tests::crop_then_down does *)
(***************************************************************************)
\* SimplePlan::new(&model)?.run(input) on the model as built
RunOriginal ==
  /\ crExpected = <<>>
  /\ crExpected' = <<RunPair(crOps.slice, crOps.down, CropInput(crOps.len))>>
  /\ UNCHANGED <<crOps, crPatch, crFound>>
  /\ UNCHANGED <<varsDim, varsDelay, varsPulse, varsGraph, varsLaws, varsBuild, varsTwo, varsPipe, varsScan, varsDeclutter>>

\* pull_downsample_over_slice on the Downsample and the Slice before it
PullOverSlice ==
  /\ crPatch = <<>>
  /\ crPatch' = <<PullDownsampleOverSlice(crOps.slice, crOps.down)>>
  /\ UNCHANGED <<crOps, crExpected, crFound>>
  /\ UNCHANGED <<varsDim, varsDelay, varsPulse, varsGraph, varsLaws, varsBuild, varsTwo, varsPipe, varsScan, varsDeclutter>>

\* SimplePlan::new(&model)?.run(input) on the rewritten model
RunRewritten ==
  /\ crPatch # <<>>
  /\ crFound = <<>>
  /\ crFound' = <<RunPair(crPatch[1][1], crPatch[1][2], CropInput(crOps.len))>>
  /\ UNCHANGED <<crOps, crPatch, crExpected>>
  /\ UNCHANGED <<varsDim, varsDelay, varsPulse, varsGraph, varsLaws, varsBuild, varsTwo, varsPipe, varsScan, varsDeclutter>>

NextCrop == RunOriginal \/ PullOverSlice \/ RunRewritten

InitCrop == StartCrop /\ IdleDim /\ IdleDelay /\ IdlePulse /\ IdleGraph /\ IdleLaws /\ IdleBuild /\ IdleTwo /\ IdlePipe /\ IdleScan /\ IdleDeclutter

SpecCrop == InitCrop /\ [][NextCrop]_vars

(***************************************************************************)
(* Identity machine: the two sides of an identity are built with the       *)
(* arithmetic operators, as the tests reduce_div_bug_*, reduce_add_div,    *)
(* reduce_mul_div and reduce_div_mul do before they compare them.          *)
(***************************************************************************)
\* (S + c) / q + k (written - |k| when k is negative) and (S + c + k*q) / q
FoldAddedInteger ==
  /\ lwLaw = "none"
  /\ lwLaw' = "fold"
  /\ LET quotient == TDiv(TAdd(Sym, Val(lwIn.c)), lwIn.q)
     IN lwLeft' = <<IF lwIn.k < 0 THEN TSub(quotient, Val(-lwIn.k))
                                 ELSE TAdd(quotient, Val(lwIn.k))>>
  /\ lwRight' = <<TDiv(TAdd(Sym, Val(lwIn.c + lwIn.k * lwIn.q)), lwIn.q)>>
  /\ UNCHANGED lwIn
  /\ UNCHANGED <<varsDim, varsDelay, varsPulse, varsGraph, varsCrop, varsBuild, varsTwo, varsPipe, varsScan, varsDeclutter>>

\* ((S + a) / p + b) / q and (S + a + b*p) / (p*q), with a = c and b = k
FoldNestedDivision ==
  /\ lwLaw = "none"
  /\ lwIn.c >= 0
  /\ lwIn.k >= 0
  /\ lwLaw' = "nested"
  /\ lwLeft' = <<TDiv(TAdd(TDiv(TAdd(Sym, Val(lwIn.c)), lwIn.p), Val(lwIn.k)), lwIn.q)>>
  /\ lwRight' = <<TDiv(TAdd(Sym, Val(lwIn.c + lwIn.k * lwIn.p)), lwIn.p * lwIn.q)>>
  /\ UNCHANGED lwIn
  /\ UNCHANGED <<varsDim, varsDelay, varsPulse, varsGraph, varsCrop, varsBuild, varsTwo, varsPipe, varsScan, varsDeclutter>>

\* S * p / p and S / p * p
CancelMulDiv ==
  /\ lwLaw = "none"
  /\ lwIn.p >= 2
  /\ lwLaw' = "cancel"
  /\ lwLeft' = <<TDiv(TMul(Sym, lwIn.p), lwIn.p)>>
  /\ lwRight' = <<TMul(TDiv(Sym, lwIn.p), lwIn.p)>>
  /\ UNCHANGED lwIn
  /\ UNCHANGED <<varsDim, varsDelay, varsPulse, varsGraph, varsCrop, varsBuild, varsTwo, varsPipe, varsScan, varsDeclutter>>

NextLaws == FoldAddedInteger \/ FoldNestedDivision \/ CancelMulDiv

InitLaws == StartLaws /\ IdleDim /\ IdleDelay /\ IdlePulse /\ IdleGraph /\ IdleCrop /\ IdleBuild /\ IdleTwo /\ IdlePipe /\ IdleScan /\ IdleDeclutter

SpecLaws == InitLaws /\ [][NextLaws]_vars
(***************************************************************************)
(* Construction machine: arithmetic constructors are applied to a tree,    *)
(* which to_integer and eval_with then read.                               *)
(***************************************************************************)
\* what a constructor leaves: the tree it returned, nothing if it panicked
Built(e) == IF HasPanic(e) THEN <<>> ELSE <<e>>

\* tree + v
AddInteger ==
  /\ buTree # <<>>
  /\ buCount < MaxBuilds
  /\ \E v \in BuildIntegers : buTree' = Built(TAdd(buTree[1], Val(v)))
  /\ buCount' = buCount + 1
  /\ buInt' = <<>>
  /\ buEval' = <<>>
  /\ UNCHANGED buChecks
  /\ UNCHANGED <<varsDim, varsDelay, varsPulse, varsGraph, varsCrop, varsLaws, varsTwo, varsPipe, varsScan, varsDeclutter>>

\* tree - v
SubInteger ==
  /\ buTree # <<>>
  /\ buCount < MaxBuilds
  /\ \E v \in BuildIntegers : buTree' = Built(TSub(buTree[1], Val(v)))
  /\ buCount' = buCount + 1
  /\ buInt' = <<>>
  /\ buEval' = <<>>
  /\ UNCHANGED buChecks
  /\ UNCHANGED <<varsDim, varsDelay, varsPulse, varsGraph, varsCrop, varsLaws, varsTwo, varsPipe, varsScan, varsDeclutter>>

\* tree + S
AddSymbol ==
  /\ buTree # <<>>
  /\ buCount < MaxBuilds
  /\ buTree' = Built(TAdd(buTree[1], Sym))
  /\ buCount' = buCount + 1
  /\ buInt' = <<>>
  /\ buEval' = <<>>
  /\ UNCHANGED buChecks
  /\ UNCHANGED <<varsDim, varsDelay, varsPulse, varsGraph, varsCrop, varsLaws, varsTwo, varsPipe, varsScan, varsDeclutter>>

\* -tree
Negate ==
  /\ buTree # <<>>
  /\ buCount < MaxBuilds
  /\ buTree' = Built(TNeg(buTree[1]))
  /\ buCount' = buCount + 1
  /\ buInt' = <<>>
  /\ buEval' = <<>>
  /\ UNCHANGED buChecks
  /\ UNCHANGED <<varsDim, varsDelay, varsPulse, varsGraph, varsCrop, varsLaws, varsTwo, varsPipe, varsScan, varsDeclutter>>

\* tree * k
MulInteger ==
  /\ buTree # <<>>
  /\ buCount < MaxBuilds
  /\ \E k \in (-MaxFactor)..MaxFactor : buTree' = Built(TMul(buTree[1], k))
  /\ buCount' = buCount + 1
  /\ buInt' = <<>>
  /\ buEval' = <<>>
  /\ UNCHANGED buChecks
  /\ UNCHANGED <<varsDim, varsDelay, varsPulse, varsGraph, varsCrop, varsLaws, varsTwo, varsPipe, varsScan, varsDeclutter>>

\* tree / q
DivInteger ==
  /\ buTree # <<>>
  /\ buCount < MaxBuilds
  /\ \E q \in 1..MaxQuotient : buTree' = Built(TDiv(buTree[1], q))
  /\ buCount' = buCount + 1
  /\ buInt' = <<>>
  /\ buEval' = <<>>
  /\ UNCHANGED buChecks
  /\ UNCHANGED <<varsDim, varsDelay, varsPulse, varsGraph, varsCrop, varsLaws, varsTwo, varsPipe, varsScan, varsDeclutter>>

\* tree % q
RemInteger ==
  /\ buTree # <<>>
  /\ buCount < MaxBuilds
  /\ \E q \in 1..MaxQuotient : buTree' = Built(TRem(buTree[1], q))
  /\ buCount' = buCount + 1
  /\ buInt' = <<>>
  /\ buEval' = <<>>
  /\ UNCHANGED buChecks
  /\ UNCHANGED <<varsDim, varsDelay, varsPulse, varsGraph, varsCrop, varsLaws, varsTwo, varsPipe, varsScan, varsDeclutter>>

\* tree.div_ceil(q)
DivCeil ==
  /\ buTree # <<>>
  /\ buCount < MaxBuilds
  /\ \E q \in 1..MaxQuotient : buTree' = Built(TDivCeil(buTree[1], q))
  /\ buCount' = buCount + 1
  /\ buInt' = <<>>
  /\ buEval' = <<>>
  /\ UNCHANGED buChecks
  /\ UNCHANGED <<varsDim, varsDelay, varsPulse, varsGraph, varsCrop, varsLaws, varsTwo, varsPipe, varsScan, varsDeclutter>>

\* tree.to_integer()
ReadInteger ==
  /\ buTree # <<>>
  /\ buInt' = <<ToInteger(buTree[1])>>
  /\ UNCHANGED <<buChecks, buTree, buCount, buEval>>
  /\ UNCHANGED <<varsDim, varsDelay, varsPulse, varsGraph, varsCrop, varsLaws, varsTwo, varsPipe, varsScan, varsDeclutter>>

\* tree.eval_with(&values)
Evaluate ==
  /\ buTree # <<>>
  /\ \E values \in BuildValues :
       buEval' = <<[values |-> values, result |-> TryEvalWith(buTree[1], values)]>>
  /\ UNCHANGED <<buChecks, buTree, buCount, buInt>>
  /\ UNCHANGED <<varsDim, varsDelay, varsPulse, varsGraph, varsCrop, varsLaws, varsTwo, varsPipe, varsScan, varsDeclutter>>

NextBuild ==
  \/ AddInteger \/ SubInteger \/ AddSymbol \/ Negate \/ MulInteger
  \/ DivInteger \/ RemInteger \/ DivCeil \/ ReadInteger \/ Evaluate

InitBuild == StartBuild /\ IdleDim /\ IdleDelay /\ IdlePulse /\ IdleGraph /\ IdleCrop /\ IdleLaws /\ IdleTwo /\ IdlePipe /\ IdleScan /\ IdleDeclutter

SpecBuild == InitBuild /\ [][NextBuild]_vars
(***************************************************************************)
(* Two-delay machine: the pulses of a stream are run on two Delays in a    *)
(* row, as tests::test_two_delays does, and on one Delay of the sum.       *)
(***************************************************************************)
\* state.run on the model of the two Delays
RunTwoDelays ==
  /\ tdCount < MaxEvals
  /\ tdCount = tdRuns
  /\ LET input == PulseInput(tdCount, tdIn.pulse)
     IN /\ tdOut' = ChainOutput(tdChain, tdStates, <<>>, input)
        /\ tdStates' = ChainStates(tdChain, tdStates, <<>>, input)
  /\ tdCount' = tdCount + 1
  /\ UNCHANGED <<tdIn, tdChain, tdSingle, tdState, tdRuns, tdOne>>
  /\ UNCHANGED <<varsDim, varsDelay, varsPulse, varsGraph, varsCrop, varsLaws, varsBuild, varsPipe, varsScan, varsDeclutter>>

\* state.run of the same pulse on the model of the single Delay
RunOneDelay ==
  /\ tdRuns < tdCount
  /\ LET input == PulseInput(tdRuns, tdIn.pulse)
     IN /\ tdOne' = ChainOutput(tdSingle, tdState, <<>>, input)
        /\ tdState' = ChainStates(tdSingle, tdState, <<>>, input)
  /\ tdRuns' = tdRuns + 1
  /\ UNCHANGED <<tdIn, tdChain, tdStates, tdSingle, tdCount, tdOut>>
  /\ UNCHANGED <<varsDim, varsDelay, varsPulse, varsGraph, varsCrop, varsLaws, varsBuild, varsPipe, varsScan, varsDeclutter>>

NextTwo == RunTwoDelays \/ RunOneDelay

InitTwo == StartTwo /\ IdleDim /\ IdleDelay /\ IdlePulse /\ IdleGraph /\ IdleCrop /\ IdleLaws /\ IdleBuild /\ IdlePipe /\ IdleScan /\ IdleDeclutter

SpecTwo == InitTwo /\ [][NextTwo]_vars
(***************************************************************************)
(* Pipeline machine: the closure of Parameters::from_clap that drives the  *)
(* model through the stages, src/cli/src/main.rs.  A stage is named by the *)
(* string the closure compares stop_at with.                               *)
(***************************************************************************)
\* stop_at: --pass, or the default that -O and --pulse imply
StopAt(args) ==
  IF args.pass # <<>> THEN args.pass[1]
  ELSE IF args.optimize THEN "optimize"
  ELSE IF args.pulse # <<>> THEN "pulse-declutter"
  ELSE "declutter"

\* the stage the closure runs after the stages in done
StageAfter(done, args) ==
  IF done = <<>> THEN "load"
  ELSE CASE done[Len(done)] = "load" -> "analyse"
         [] done[Len(done)] = "analyse" -> "incorporate"
         [] done[Len(done)] = "incorporate" -> "type"
         [] done[Len(done)] = "type" -> "declutter"
         [] done[Len(done)] = "declutter" ->
              IF args.pulse # <<>> THEN "pulse-normalize" ELSE "optimize"
         [] done[Len(done)] = "pulse-normalize" -> "pulse"
         [] done[Len(done)] = "pulse" -> "pulse-to-type"
         [] done[Len(done)] = "pulse-to-type" -> "pulse-declutter"
         [] done[Len(done)] = "pulse-declutter" -> "optimize"

\* the next stage succeeds: the closure returns its model if stop_at names
\* it or if it is the last one, and goes on otherwise
RunStage ==
  /\ piReturn = <<>>
  /\ LET stage == StageAfter(piDone, piArgs)
     IN /\ piDone' = Append(piDone, stage)
        /\ piReturn' = IF stage = "optimize" \/ StopAt(piArgs) = stage
                       THEN <<"Ok", stage>> ELSE <<>>
  /\ UNCHANGED piArgs
  /\ UNCHANGED <<varsDim, varsDelay, varsPulse, varsGraph, varsCrop, varsLaws, varsBuild, varsTwo, varsScan, varsDeclutter>>

\* the next stage returns an error, which `?` returns from the closure; load
\* is not a call of the closure
FailStage ==
  /\ piReturn = <<>>
  /\ StageAfter(piDone, piArgs) # "load"
  /\ piReturn' = <<"Err", StageAfter(piDone, piArgs)>>
  /\ UNCHANGED <<piArgs, piDone>>
  /\ UNCHANGED <<varsDim, varsDelay, varsPulse, varsGraph, varsCrop, varsLaws, varsBuild, varsTwo, varsScan, varsDeclutter>>

NextPipe == RunStage \/ FailStage

InitPipe == StartPipe /\ IdleDim /\ IdleDelay /\ IdlePulse /\ IdleGraph /\ IdleCrop /\ IdleLaws /\ IdleBuild /\ IdleTwo /\ IdleScan /\ IdleDeclutter

SpecPipe == InitPipe /\ [][NextPipe]_vars

(***************************************************************************)
(* Scan machine: one State of a LirScan is evaluated several times, on     *)
(* inputs of any length; the iterations that ran the body are logged.      *)
(***************************************************************************)
\* State::eval(session, op, inputs): the outputs are allocated
\* uninitialized; the body may return an error in one iteration, which eval
\* returns, and the state is not evaluated again
EvalScan ==
  /\ scResult \in {"none", "ok"}
  /\ Len(scCalls) < MaxScanEvals
  /\ \E inputs \in ScanEvalInputs :
     \E fill \in [1..Len(FullMappings(scOp)) ->
                    [1..ScanIters(scOp, inputs) -> UninitValues]] :
     \E fail_at \in {<<>>} \cup {<<i>> : i \in 0..(ScanIters(scOp, inputs) - 1)} :
       LET r == ScanEval(scOp,
                         [position |-> scPosition, hidden_state |-> scHidden, log |-> scLog],
                         inputs, fill, fail_at, Len(scCalls) + 1)
       IN /\ scResult' = r.status
          /\ scPosition' = r.mutable.position
          /\ scHidden' = r.mutable.hidden_state
          /\ scLog' = r.mutable.log
          /\ scOutputs' = IF r.status = "ok" THEN r.outputs ELSE <<>>
          /\ scCalls' = Append(scCalls, inputs)
  /\ UNCHANGED scOp
  /\ UNCHANGED <<varsDim, varsDelay, varsPulse, varsGraph, varsCrop, varsLaws, varsBuild, varsTwo, varsPipe, varsDeclutter>>

NextScan == EvalScan

InitScan == StartScan /\ IdleDim /\ IdleDelay /\ IdlePulse /\ IdleGraph /\ IdleCrop /\ IdleLaws /\ IdleBuild /\ IdleTwo /\ IdlePipe /\ IdleDeclutter

SpecScan == InitScan /\ [][NextScan]_vars


(***************************************************************************)
(* Declutter machine: a typed model is wired node by node, then the        *)
(* driver applies the patch of the first node of the eval order whose      *)
(* hook returns one, until none does; the model is decluttered again.      *)
(***************************************************************************)
\* the outlets of the model that have no successor, in the order of the nodes
Leaves(model) ==
  SelectSeq([n \in 1..Len(model.nodes) |-> <<n - 1, 0>>],
            LAMBDA outlet : Successors(model, outlet) = <<>>)

\* the outlets a node is wired on: those of the last two nodes
WiredOn(model) == {outlet \in Outlets(model) : outlet[1] + 2 >= Len(model.nodes)}

\* ModelImpl::wire_node of an op with one input and one output, whose fact
\* is what output_facts gives
WireTyped(model, name, op, input) ==
  AddEdge(AddNode(model, name, OpName(op),
                  <<FactName(OutputShape(op, NamedShapes[OutletFact(model, input)]))>>),
          input, <<Len(model.nodes), 0>>)

\* model.wire_node(name, op, [input]), then the outlets nothing consumes are
\* declared as the outputs of the model
WireTypedNode ==
  /\ deStatus = "building"
  /\ Len(deModel.nodes) <= MaxTypedOps
  /\ \E input \in WiredOn(deModel) :
     \E op \in WiredOps(NamedShapes[OutletFact(deModel, input)]) :
       LET wired == WireTyped(deModel, ToString(Len(deModel.nodes)), op, input)
       IN deModel' = [wired EXCEPT !.outputs = Leaves(wired)]
  /\ UNCHANGED <<deStatus, dePatches, deRuns, deFirst>>
  /\ UNCHANGED <<varsDim, varsDelay, varsPulse, varsGraph, varsCrop, varsLaws, varsBuild, varsTwo, varsPipe, varsScan>>

\* the driver is at work on the model
Decluttering == deStatus \in {"building", "running"} /\ Len(deModel.nodes) > 1

\* one step of the driver: the first node of the eval order whose hook does
\* not return None; its patch is applied and the pass restarts, a failure of
\* the hook or of apply ends the run
DeclutterPatch ==
  /\ Decluttering
  /\ dePatches < MaxPatches
  /\ Cluttered(deModel, EvalOrder(deModel).order) # <<>>
  /\ LET r == Declutter(deModel, Head(Cluttered(deModel, EvalOrder(deModel).order)))
     IN IF ~r.ok THEN deModel' = deModel /\ deStatus' = "err"
        ELSE \E shunt_order \in Orders(r.patch.shunt_outlet_by) :
             \E wire_order \in Orders(ApplyAllInputs(r.patch, deModel)) :
               LET applied == Apply(r.patch, deModel, shunt_order, wire_order)
               IN /\ deModel' = applied.target
                  /\ deStatus' = IF applied.status = "ok" THEN "running" ELSE "err"
  /\ dePatches' = dePatches + 1
  /\ UNCHANGED <<deRuns, deFirst>>
  /\ UNCHANGED <<varsDim, varsDelay, varsPulse, varsGraph, varsCrop, varsLaws, varsBuild, varsTwo, varsPipe, varsScan>>

\* the pass visits the whole eval order and no hook returns a patch: the run
\* ends
DeclutterEnd ==
  /\ Decluttering
  /\ Cluttered(deModel, EvalOrder(deModel).order) = <<>>
  /\ deStatus' = "done"
  /\ deRuns' = deRuns + 1
  /\ deFirst' = IF deRuns = 0 THEN deModel ELSE deFirst
  /\ UNCHANGED <<deModel, dePatches>>
  /\ UNCHANGED <<varsDim, varsDelay, varsPulse, varsGraph, varsCrop, varsLaws, varsBuild, varsTwo, varsPipe, varsScan>>

\* model.declutter() on the model a declutter returned
DeclutterAgain ==
  /\ deStatus = "done"
  /\ deRuns < MaxDeclutterRuns
  /\ deStatus' = "running"
  /\ dePatches' = 0
  /\ UNCHANGED <<deModel, deRuns, deFirst>>
  /\ UNCHANGED <<varsDim, varsDelay, varsPulse, varsGraph, varsCrop, varsLaws, varsBuild, varsTwo, varsPipe, varsScan>>

NextDeclutter == WireTypedNode \/ DeclutterPatch \/ DeclutterEnd \/ DeclutterAgain

InitDeclutter == StartDeclutter /\ IdleDim /\ IdleDelay /\ IdlePulse /\ IdleGraph /\ IdleCrop /\ IdleLaws /\ IdleBuild /\ IdleTwo /\ IdlePipe /\ IdleScan

SpecDeclutter == InitDeclutter /\ [][NextDeclutter]_vars
(***************************************************************************)
(* Properties                                                              *)
(***************************************************************************)
\* both trees evaluate to the same integer at every stream length
SameValue(a, b) == \A s \in StreamValues : EvalWith(a, s) = EvalWith(b, s)

RECURSIVE NoDiv(_)
\* the tree is built of S, literals, sums and products by a literal only
NoDiv(e) ==
  CASE IsAdd(e) -> \A i \in DOMAIN e[2] : NoDiv(e[2][i])
    [] IsMul(e) -> NoDiv(e[3])
    [] IsDiv(e) -> FALSE
    [] OTHER -> TRUE

\* C1: any two TDim trees that evaluate to the same integer for every value
\* of S reduce to the same tree.
C1_Determinism == SameValue(dimA, dimB) => redA = redB

\* C1, restricted: two TDim trees without a Div node that evaluate to the
\* same integer for every value of S reduce to the same tree.
C1_DivFreeDeterminism ==
  (NoDiv(dimA) /\ NoDiv(dimB) /\ SameValue(dimA, dimB)) => redA = redB

\* two different Div-free trees of equal value, each built by two constructors
C1_Witness ==
  /\ NoDiv(dimA) /\ NoDiv(dimB)
  /\ dimA # dimB
  /\ opsA >= 2 /\ opsB >= 2
  /\ SameValue(dimA, dimB)
  /\ redA = redB

\* C2: the k-th eval of a Delay(pulse p, delay d, overlap o) emits p + o
\* samples, the j-th being stream sample k*p + j - d - o whenever that index
\* is not negative.
C2_DelayWindow ==
  dlCount > 0 =>
    LET k == dlCount - 1
        p == dlOp.pulse
    IN /\ Len(dlOutput) = p + dlOp.overlap
       /\ \A j \in 0..(p + dlOp.overlap - 1) :
            k * p + j - dlOp.delay - dlOp.overlap >= 0
              => dlOutput[j + 1] = k * p + j - dlOp.delay - dlOp.overlap

\* a delay longer than the pulse, with overlap, after enough pulses for every
\* emitted sample to be a stream sample
C2_Witness ==
  /\ dlOp.delay > dlOp.pulse /\ dlOp.overlap > 0
  /\ dlCount = MaxEvals
  /\ (dlCount - 1) * dlOp.pulse - dlOp.delay - dlOp.overlap > 0
  /\ dlOutput[1] = (dlCount - 1) * dlOp.pulse - dlOp.delay - dlOp.overlap

\* the op is one of those the pulse equivalence is stated for
StreamAxisOp(op) ==
  \/ op.kind = "Pad" /\ op.mode = "Constant"
  \/ op.kind = "Slice" /\ op.axis = puFact.axis
  \/ op.kind = "Downsample"

\* the pulsed output, once the delay declared by the pulsed output fact is
\* discarded, carries the samples of the non-pulsed output
PulsedMatchesWhole ==
  LET whole == OpEval(puOp, WholeStream(puLen))
      delay == puTarget[Len(puTarget)].fact.delay
  IN \A i \in 1..Len(whole) :
       delay + i <= Len(puOut) => puOut[delay + i] = whole[i]

\* C3: for Pad (Constant mode on the stream axis), Slice on the stream axis
\* and Downsample, whatever the delay of the input fact, the non-pulsed op run
\* on a stream of length L gives the samples that the pulsified op emits over
\* L/pulse successive pulses after the delay its pulsed output fact declares.
C3_PulseEquivalence ==
  (/\ puResult = "ok"
   /\ StreamAxisOp(puOp)
   /\ puLen % FactPulse(puFact) = 0
   /\ puCount * FactPulse(puFact) <= puLen)
  => PulsedMatchesWhole

\* the latest call is an apply that returned an error
ApplyReturnedErr == lastCall.op = "apply" /\ lastCall.status = "err"

\* the latest call is an apply that returned Ok
ApplyReturnedOk == lastCall.op = "apply" /\ lastCall.status = "ok"

\* C4: whenever apply returns an error, the host model (nodes, edges, outputs,
\* labels) is what it was before the call.
C4_ApplyAtomic == ApplyReturnedErr => host = lastCall.before

\* the number of occurrences of x in the sequence
Occurrences(s, x) == Cardinality({i \in 1..Len(s) : s[i] = x})

\* every node input n.inputs[i] = (m, s) is matched by exactly one occurrence
\* of the inlet (n, i) in the successors of (m, s), and by none elsewhere
EdgeConsistent(model) ==
  \A n \in 0..(Len(model.nodes) - 1) :
    \A i \in 0..(Len(model.nodes[n + 1].inputs) - 1) :
      LET producer == model.nodes[n + 1].inputs[i + 1]
      IN /\ ValidOutlet(model, producer)
         /\ \A o \in Outlets(model) :
              Occurrences(Successors(model, o), <<n, i>>) = IF o = producer THEN 1 ELSE 0

\* C5: a host that is edge consistent stays so through any sequence of
\* successful apply calls of patches built with tap_model, wire_node,
\* shunt_outside and obliterate.
C5_EdgeConsistency ==
  ~(lastCall.op = "apply" /\ lastCall.status # "ok") => EdgeConsistent(host)

\* two patches have been applied with success, the second one having shunted an
\* outlet that had successors, and a node of the host reads a node added by a
\* patch
C5_Witness ==
  /\ ApplyReturnedOk
  /\ applies = 2
  /\ \E e \in lastCall.patch.shunt_outlet_by :
       /\ ValidOutlet(lastCall.before, e[1])
       /\ Successors(lastCall.before, e[1]) # <<>>
  /\ host # lastCall.before
  /\ EdgeConsistent(host)

\* C6: after each of the four phases of apply the host has as many input
\* outlets and as many output outlets as before the call, and a successful
\* apply goes through the four phases.
C6_ArityPreserved ==
  lastCall.op = "apply" =>
    /\ \A i \in 1..Len(lastCall.arities) : lastCall.arities[i] = Arity(lastCall.before)
    /\ lastCall.status = "ok" => Len(lastCall.arities) = 4

\* a successful apply that has added a node, shunted a model output and
\* wired the inputs of the added node
C6_Witness ==
  /\ ApplyReturnedOk
  /\ Len(host.nodes) > Len(lastCall.before.nodes)
  /\ \E e \in lastCall.patch.shunt_outlet_by :
       \E i \in 1..Len(lastCall.before.outputs) : lastCall.before.outputs[i] = e[1]
  /\ host.outputs # lastCall.before.outputs
  /\ host.nodes[Len(host.nodes)].inputs # <<>>
  /\ Len(lastCall.arities) = 4

\* the outlets of the list are mapped, in order, to those of the translated
\* list, which exist in the target and hold the converted op of the source outlet
MappedInOrder(source, from, target, to, mapping) ==
  /\ Len(to) = Len(from)
  /\ \A i \in 1..Len(from) :
       /\ MapHas(mapping, from[i])
       /\ to[i] = MapGet(mapping, from[i])
       /\ ValidOutlet(target, to[i])
       /\ target.nodes[to[i][1] + 1].op = ConvertOp(source.nodes[from[i][1] + 1].op)
  /\ \A i, j \in 1..Len(from) : from[i] # from[j] => to[i] # to[j]

\* C7: translate_model yields a target whose inputs and outputs are, in
\* order, the mapping of the source's input and output outlets, also for
\* the inputs that eval_order does not reach.
C7_TranslatorIO ==
  translated.status \in {"ok", "panic"} =>
    /\ translated.status = "ok"
    /\ MappedInOrder(host, host.inputs, translated.target, translated.target.inputs,
                     translated.mapping)
    /\ MappedInOrder(host, host.outputs, translated.target, translated.target.outputs,
                     translated.mapping)

\* a translated host with an input that eval_order does not reach and that
\* is not the first of the inputs
C7_Witness ==
  /\ translated.status = "ok"
  /\ \E i \in 2..Len(host.inputs) :
       /\ host.inputs[i][1] \notin SeqToSet(EvalOrder(host).order)
       /\ translated.target.inputs[i] = MapGet(translated.mapping, host.inputs[i])
  /\ Len(translated.target.outputs) = 2

ShuntFactsSame ==
  /\ ValidOutlet(host, lastCall.outlet)
  /\ ValidOutlet(patch.model, lastCall.by)
  /\ SameAs(OutletFact(host, lastCall.outlet), OutletFact(patch.model, lastCall.by))

\* C9: shunt_outside fails and leaves shunt_outlet_by unchanged when the fact
\* of the host outlet and the fact of the patch outlet are not same_as; when
\* they are, it succeeds and records exactly host outlet -> patch outlet.
C9_ShuntOutside ==
  lastCall.op = "shunt_outside" =>
    IF ShuntFactsSame
    THEN /\ lastCall.ok
         /\ patch.shunt_outlet_by = MapInsert(lastCall.before, lastCall.outlet, lastCall.by)
    ELSE /\ ~lastCall.ok
         /\ patch.shunt_outlet_by = lastCall.before

\* a shunt_outside that failed on two existing outlets of different facts
C9_Witness ==
  /\ lastCall.op = "shunt_outside"
  /\ ~lastCall.ok
  /\ ValidOutlet(host, lastCall.outlet)
  /\ ValidOutlet(patch.model, lastCall.by)
  /\ OutletFact(host, lastCall.outlet) # OutletFact(patch.model, lastCall.by)
  /\ patch.shunt_outlet_by = lastCall.before

\* the patch is made of taps only, and shunts each input outlet of the model,
\* and nothing else, by a tap of that same outlet
IdentityPatch(p, model) ==
  /\ p.obliterate = <<>>
  /\ \A i \in 1..Len(p.model.nodes) : p.model.nodes[i].op = "Source"
  /\ \A i \in 1..Len(model.inputs) : MapHas(p.shunt_outlet_by, model.inputs[i])
  /\ \A e \in p.shunt_outlet_by :
       /\ \E i \in 1..Len(model.inputs) : model.inputs[i] = e[1]
       /\ <<e[2], e[1]>> \in p.incoming

\* C10: applying a patch that taps each host input outlet and shunts that
\* outlet by its tap leaves the host as it was: nodes, inputs of the nodes,
\* successor lists, model inputs and outputs.
C10_IdentityNeutral ==
  (lastCall.op = "apply" /\ IdentityPatch(lastCall.patch, lastCall.before))
  => (lastCall.status = "ok" /\ host = lastCall.before)

\* an identity patch has been applied to a host whose input has successors
C10_Witness ==
  /\ lastCall.op = "apply"
  /\ IdentityPatch(lastCall.patch, lastCall.before)
  /\ lastCall.patch.shunt_outlet_by # {}
  /\ \A i \in 1..Len(lastCall.before.inputs) :
       Successors(lastCall.before, lastCall.before.inputs[i]) # <<>>
  /\ host = lastCall.before

\* a Pad in Constant mode that pads before the stream, on an input of delay 0
ConstantPadBefore ==
  /\ puOp.kind = "Pad"
  /\ puOp.mode = "Constant"
  /\ puOp.pads[1][1] > 0
  /\ puOp.pads[2] = <<0, 0>>
  /\ puFact.delay = 0

\* C11: pulsifying a Constant Pad with before > 0 on an input of delay 0 wires
\* a Delay{delay = before, overlap = 0} ahead of a PulsePad, and over the
\* pulses the PulsePad emits the pad constant at the first `before` stream
\* positions and the delayed input samples at the later positions up to the
\* end of the input.
C11_PadPulse ==
  (ConstantPadBefore /\ puResult # "none") =>
    LET before == puOp.pads[1][1]
    IN /\ puResult = "ok"
       /\ Len(puTarget) = 2
       /\ puTarget[1].op = [kind |-> "Delay", axis |-> 0, delay |-> before, overlap |-> 0]
       /\ puTarget[2].op.kind = "PulsePad"
       /\ \A n \in 0..(Len(puOut) - 1) :
            /\ n < before => puOut[n + 1] = PadConstant
            /\ (n >= before /\ n < before + puLen) =>
                 puOut[n + 1] = WholeStream(puLen)[n - before + 1]

\* a padding longer than the pulse has been emitted, then the whole stream
C11_Witness ==
  /\ ConstantPadBefore
  /\ puResult = "ok"
  /\ puOp.pads[1][1] > FactPulse(puFact)
  /\ FactPulse(puFact) > 1
  /\ Len(puOut) >= puOp.pads[1][1] + puLen
  /\ puLen > 1
  /\ puOut[puOp.pads[1][1]] = PadConstant
  /\ puOut[puOp.pads[1][1] + puLen] = puLen

\* C12: every position a fresh Delay emits before the first input sample
\* holds 0 (the output is 0-padded before the delay).
C12_ZeroPadded ==
  dlCount > 0 =>
    LET k == dlCount - 1
        p == dlOp.pulse
    IN \A j \in 0..(p + dlOp.overlap - 1) :
         k * p + j - dlOp.delay - dlOp.overlap < 0 => dlOutput[j + 1] = 0

\* the patch that was applied with success is the one Slice::declutter
\* returned for the Slice node of the host
SliceShunted(node) ==
  /\ ApplyReturnedOk
  /\ node < Len(lastCall.before.nodes)
  /\ lastCall.before.nodes[node + 1].op \in GraphSlices
  /\ SliceDeclutter(lastCall.before, node).some
  /\ lastCall.patch = SliceDeclutter(lastCall.before, node).patch

\* every consumer the outlet had in the model before reads the replacement
ConsumersRead(before, outlet, replacement) ==
  \A i \in 1..Len(Successors(before, outlet)) :
    LET succ == Successors(before, outlet)[i]
    IN host.nodes[succ[1] + 1].inputs[succ[2] + 1] = replacement

\* C13: for a Slice with start = 0 and end equal to the input dimension,
\* declutter returns a patch that replaces the slice's outlet by the slice's
\* input; after apply every former consumer of the slice reads the slice's
\* input and the slice node has been obliterated (its op is Dummy).
C13_SliceShunt ==
  \A node \in 0..(Len(host.nodes) - 1) :
    SliceShunted(node) =>
      /\ lastCall.patch.shunt_outlet_by = {<<<<node, 0>>, <<0, 0>>>>}
      /\ ConsumersRead(lastCall.before, <<node, 0>>, lastCall.before.nodes[node + 1].inputs[1])
      /\ host.nodes[node + 1].op = "Dummy"

\* C14: a Slice[left, len - right) followed by Downsample(stride, modulo) is
\* rewritten into Downsample(stride, (modulo + left) mod stride) followed by
\* a Slice starting at (modulo + left) div stride, of the length of the
\* original output, and the rewritten pair gives the output of the original
\* pair.
C14_DownsampleOverSlice ==
  LET left == crOps.slice.start
      stride == crOps.down.stride
      modulo == crOps.down.modulo
  IN /\ crPatch # <<>> =>
          /\ crPatch[1][1] = [kind |-> "Downsample", axis |-> 0, stride |-> stride,
                              modulo |-> (modulo + left) % stride]
          /\ crPatch[1][2].kind = "Slice"
          /\ crPatch[1][2].start = (modulo + left) \div stride
          /\ crExpected # <<>> =>
               crPatch[1][2].end - crPatch[1][2].start = Len(crExpected[1])
     /\ crExpected # <<>> => crExpected[1] # PanicOutput
     /\ (crExpected # <<>> /\ crFound # <<>>) => crFound[1] = crExpected[1]

\* a crop on both sides that changes the modulo and moves the start of the
\* slice, with an output of several frames
C14_Witness ==
  /\ crExpected # <<>> /\ crFound # <<>>
  /\ crFound[1] = crExpected[1]
  /\ Len(crFound[1]) >= 2
  /\ crOps.slice.start > 0 /\ crOps.slice.end < crOps.len
  /\ crPatch[1][1].modulo # crOps.down.modulo
  /\ crPatch[1][2].start > 0


\* C15: an integer added to a division is folded into it: the TDim built as
\* (S + c) / q + k compares equal to the TDim built as (S + c + k*q) / q
C15_FoldAddedInteger == lwLaw = "fold" => lwLeft = lwRight

\* the instance (S + 23) / 2 - 1 = (S + 21) / 2 has been built
C15_Witness ==
  /\ lwLaw = "fold"
  /\ lwIn.c = 23 /\ lwIn.q = 2 /\ lwIn.k = -1
  /\ lwLeft = lwRight
  /\ lwRight = <<Add(<<Val(10), Div(Add(<<Sym, Val(1)>>), 2)>>)>>

\* C16: nested divisions are folded: the TDim built as ((S + a) / p + b) / q
\* compares equal to the TDim built as (S + a + b*p) / (p*q), for a, b >= 0
C16_FoldNestedDivision == lwLaw = "nested" => lwLeft = lwRight

\* the instance ((S + 1) / 2 + 1) / 2 = (S + 3) / 4 has been built
C16_Witness ==
  /\ lwLaw = "nested"
  /\ lwIn.c = 1 /\ lwIn.p = 2 /\ lwIn.k = 1 /\ lwIn.q = 2
  /\ lwLeft = lwRight
  /\ lwRight = <<Div(Add(<<Sym, Val(3)>>), 4)>>

\* C17: (S * k) / k compares equal to S while (S / k) * k does not, for
\* every k >= 2
C17_CancelMulDiv == lwLaw = "cancel" => lwLeft = <<Sym>> /\ lwRight # <<Sym>>

\* S * 2 / 2 and S / 2 * 2 have been built
C17_Witness ==
  /\ lwLaw = "cancel"
  /\ lwIn.p = 2
  /\ lwLeft = <<Sym>>
  /\ lwRight = <<Mul(2, Div(Sym, 2))>>

\* C18: construction is total and only the readers fail: every constructor
\* returns a TDim, to_integer is an error exactly when the tree holds a
\* symbol and the literal value otherwise, and eval_with fails exactly when
\* a symbol of the tree is not bound
C18_Total ==
  /\ buTree # <<>>
  /\ buInt # <<>> =>
       /\ buInt[1] = <<"Err">> <=> HasSym(buTree[1])
       /\ IsStream(buTree[1]) <=> HasSym(buTree[1])
       /\ ~HasSym(buTree[1]) => buInt[1] = <<"Ok", buTree[1][2]>>
  /\ buEval # <<>> =>
       (buEval[1].result[1] # "Ok"
          <=> HasSym(buTree[1]) /\ "S" \notin DOMAIN buEval[1].values)

\* C19: delays compose additively: at every stream position i >= d1 + d2,
\* Delay(d1, 0) followed by Delay(d2, 0) emits what Delay(d1 + d2, 0) emits,
\* the input sample i - (d1 + d2); both declare the delay d1 + d2
C19_DelaysCompose ==
  /\ tdChain # <<>> => tdChain[2].fact = tdSingle[1].fact
  /\ tdChain # <<>> => tdChain[2].fact.delay = tdIn.d1 + tdIn.d2
  /\ tdRuns > 0 /\ tdRuns = tdCount =>
       /\ Len(tdOut) = tdIn.pulse
       /\ Len(tdOne) = tdIn.pulse
       /\ \A j \in 0..(tdIn.pulse - 1) :
            LET i == (tdCount - 1) * tdIn.pulse + j
            IN i >= tdIn.d1 + tdIn.d2 =>
                 /\ tdOut[j + 1] = tdOne[j + 1]
                 /\ tdOut[j + 1] = i - (tdIn.d1 + tdIn.d2)

\* two Delays of 2 on pulses of 3, with garbage in the buffers, after the
\* second pulse: the positions 4 and 5 hold the input samples 0 and 1
C19_Witness ==
  /\ tdIn = [pulse |-> 3, d1 |-> 2, d2 |-> 2]
  /\ tdRuns = 2 /\ tdCount = 2
  /\ tdOut[1] = 171
  /\ tdOut[2] = 0 /\ tdOut[3] = 1
  /\ tdOne[2] = 0 /\ tdOne[3] = 1

\* the node of a mapped source outlet is found again in the target: same name,
\* converted op and fact, inputs wired to the mapped outlets
SameNode(source, from, target, to, mapping) ==
  LET node == source.nodes[from[1] + 1]
      new == target.nodes[to[1] + 1]
  IN /\ to[2] = from[2]
     /\ new.name = node.name
     /\ new.op = ConvertOp(node.op)
     /\ OutletFact(target, to) = ConvertFact(OutletFact(source, from))
     /\ Len(new.inputs) = Len(node.inputs)
     /\ \A i \in 1..Len(node.inputs) :
          /\ MapHas(mapping, node.inputs[i])
          /\ new.inputs[i] = MapGet(mapping, node.inputs[i])

\* C20: a translated model is the source up to node renumbering: every
\* mapped outlet has the same node behind it, the inputs and outputs come in
\* the same order, and every label of a mapped source outlet, an input that
\* the outputs do not reach included, is on the outlet it is mapped to
C20_RoundTrip ==
  translated.status = "ok" =>
    /\ MappedInOrder(host, host.inputs, translated.target, translated.target.inputs,
                     translated.mapping)
    /\ MappedInOrder(host, host.outputs, translated.target, translated.target.outputs,
                     translated.mapping)
    /\ \A e \in translated.mapping :
         /\ SameNode(host, e[1], translated.target, e[2], translated.mapping)
         /\ OutletLabel(translated.target, e[2]) = OutletLabel(host, e[1])
\* the fact the PulsePad wired by Pad::pulsify receives: the Delay's when one
\* was inserted, the input's otherwise
PulsePadInputFact == IF Len(puTarget) = 2 THEN puTarget[1].fact ELSE puFact

\* C21: after Pad::pulsify on the stream axis with padding (before, after),
\* the pulsed output fact of the wired PulsePad has dim = input.dim + before +
\* after, with or without an inserted Delay, and the PulsePad's begin_input
\* is the delay of the fact it receives.
C21_PadStreamArithmetic ==
  (puOp.kind = "Pad" /\ puResult \in {"ok", "panic"}) =>
    LET pad == puTarget[Len(puTarget)]
    IN /\ Len(puTarget) \in {1, 2}
       /\ pad.op.kind = "PulsePad"
       /\ pad.fact.dim = TAdd(TAdd(puFact.dim, Val(puOp.pads[1][1])), Val(puOp.pads[1][2]))
       /\ pad.op.begin_input = PulsePadInputFact.delay
       /\ Len(puTarget) = 2 => puTarget[1].op.kind = "Delay"

\* an Edge Pad on a delayed input, pulsified with a Delay ahead of the PulsePad
C21_Witness ==
  /\ puOp.kind = "Pad"
  /\ puOp.mode = "Edge"
  /\ puResult = "ok"
  /\ puFact.delay > 0
  /\ puOp.pads[1][1] > 0
  /\ puOp.pads[1][2] > 0
  /\ Len(puTarget) = 2
  /\ puTarget[2].fact.dim = Add(<<Sym, Val(puOp.pads[1][1] + puOp.pads[1][2])>>)
\* C22: pulsifying a Slice whose axis is not the stream axis of its input
\* keeps the op as is, and its pulsed output fact has the stream axis, the
\* pulse, the delay and the stream dim of its input fact.
C22_SliceTransparent ==
  (puOp.kind = "Slice" /\ puOp.axis # puFact.axis /\ puResult \in {"ok", "panic"}) =>
    /\ Len(puTarget) = 1
    /\ puTarget[1].op = puOp
    /\ puTarget[1].fact.axis = puFact.axis
    /\ FactPulse(puTarget[1].fact) = FactPulse(puFact)
    /\ puTarget[1].fact.delay = puFact.delay
    /\ puTarget[1].fact.dim = puFact.dim
\* the stages in the order of the pipeline
StageOrder ==
  <<"load", "analyse", "incorporate", "type", "declutter", "pulse-normalize", "pulse",
    "pulse-to-type", "pulse-declutter", "optimize">>

\* the stage a value of --pass names
StageNamed(pass) == IF pass = "pulse-normalized" THEN "pulse-normalize" ELSE pass

\* the stages that are run only when a pulse is given
PulseStages == {"pulse-normalize", "pulse", "pulse-to-type", "pulse-declutter"}

\* whether done lists stages in the order of the pipeline
InStageOrder(done) ==
  \A i, j \in DOMAIN done :
    i < j => \E a, b \in DOMAIN StageOrder :
               a < b /\ StageOrder[a] = done[i] /\ StageOrder[b] = done[j]

\* C23: the stages run in the fixed order; for every stage name --pass
\* accepts (a pulse being given for the pulse stages) the pipeline returns
\* the model of that stage and runs no later stage; a failing stage aborts
\* the pipeline with its error.
C23_StopAtStage ==
  /\ InStageOrder(piDone)
  /\ (piReturn # <<>> /\ piReturn[1] = "Err") =>
       \A i \in DOMAIN piDone : piDone[i] # piReturn[2]
  /\ (/\ piArgs.pass # <<>>
      /\ StageNamed(piArgs.pass[1]) \in PulseStages => piArgs.pulse # <<>>)
     => /\ \A i \in DOMAIN piDone :
             i > 1 => piDone[i - 1] # StageNamed(piArgs.pass[1])
        /\ (piReturn # <<>> /\ piReturn[1] = "Ok") =>
             piReturn[2] = StageNamed(piArgs.pass[1])

ApplyMapping(self, target) ==
  ApplyClones(self.model.nodes, 0, target, self.incoming, {}).mapping

\* input ix of the added node is, in the patch, a tap of a host outlet that
\* the patch shunts
CrossesShunt(self, inputs, ix) ==
  /\ MapHas(self.incoming, inputs[ix])
  /\ MapHas(self.shunt_outlet_by, MapGet(self.incoming, inputs[ix]))

\* the replacement of the shunted outlet, as an outlet of the target
FixedBy(self, target, outlet) ==
  MapGet(ApplyMapping(self, target), MapGet(self.shunt_outlet_by, outlet))

\* every node the patch obliterates is a dummy, and the consumers an outlet
\* had before the patch consume its replacement, unless the replacement is
\* shunted too
ShuntedThenObliterated(self, before, after) ==
  /\ \A i \in 1..Len(self.obliterate) : after.nodes[self.obliterate[i] + 1].op = "Dummy"
  /\ \A e \in self.shunt_outlet_by :
       LET fixed_by == MapGet(ApplyMapping(self, before), e[2])
           succs == Successors(before, e[1])
       IN (\A other \in self.shunt_outlet_by : other[1] # fixed_by \/ other = e)
          => \A s \in 1..Len(succs) :
               after.nodes[succs[s][1] + 1].inputs[succs[s][2] + 1] = fixed_by

Producers(model, node) ==
  {model.nodes[node + 1].inputs[i][1] : i \in 1..Len(model.nodes[node + 1].inputs)}

RECURSIVE Ancestors(_, _, _)
\* the nodes from which the nodes of the frontier are reached along the edges
Ancestors(model, frontier, seen) ==
  LET found == UNION {Producers(model, n) : n \in frontier}
  IN IF found \subseteq seen THEN seen
     ELSE Ancestors(model, found \ seen, seen \cup found)

\* no node of the model is reached from itself
Acyclic(model) ==
  \A n \in 0..(Len(model.nodes) - 1) : n \notin Ancestors(model, {n}, {})

\* the patch is the one intercept returns for the outlet of the model
InterceptOf(p, model, outlet) ==
  \E fact \in Facts :
    LET r == Intercept(model, outlet, "i", "I", fact)
    IN r.ok /\ p = r.patch

\* what C26 states of the model after the patch, new_node being the node the
\* patch added on the outlet
Intercepted(before, after, outlet, new_node) ==
  /\ after.nodes[new_node + 1].inputs = <<outlet>>
  /\ \A s \in 1..Len(Successors(before, outlet)) :
       LET inlet == Successors(before, outlet)[s]
       IN after.nodes[inlet[1] + 1].inputs[inlet[2] + 1] = <<new_node, 0>>
  /\ \A i \in 1..Len(before.outputs) :
       before.outputs[i] = outlet => after.outputs[i] = <<new_node, 0>>
  /\ new_node \notin Producers(after, new_node)
  /\ Acyclic(before) => Acyclic(after)

\* C26: after the patch of ModelPatch::intercept(host, X, name, op, fact) is
\* applied, the new node has X as its only input, every inlet that consumed X
\* consumes output 0 of the new node, a model output that was X is output 0
\* of the new node, the new node does not consume itself, and a host that
\* had no cycle has none.
C26_InterceptNoCycle ==
  \A outlet \in Outlets(host) :
    (lastCall.op = "apply" /\ ValidOutlet(lastCall.before, outlet)
       /\ InterceptOf(lastCall.patch, lastCall.before, outlet))
    => /\ lastCall.status = "ok"
       /\ Intercepted(lastCall.before, host, outlet, Len(lastCall.before.nodes))

\* an intercept patch has been applied on an outlet that had consumers and
\* was a model output, in a host without cycle
C26_Witness ==
  /\ lastCall.op = "apply"
  /\ lastCall.status = "ok"
  /\ \E outlet \in Outlets(lastCall.before) :
       /\ InterceptOf(lastCall.patch, lastCall.before, outlet)
       /\ Successors(lastCall.before, outlet) # <<>>
       /\ \E i \in 1..Len(lastCall.before.outputs) : lastCall.before.outputs[i] = outlet
       /\ Acyclic(lastCall.before)
       /\ Acyclic(host)
       /\ host.nodes[Len(lastCall.before.nodes) + 1].inputs = <<outlet>>

\* C27: reduce preserves the value: for every stream length s >= 0 the
\* reduced tree evaluates to the integer the tree evaluates to, also when
\* the numerator of a division is negative.
C27_ReducePreservesValue ==
  \A s \in 0..MaxStream :
    /\ EvalWith(redA, s) = EvalWith(dimA, s)
    /\ EvalWith(redB, s) = EvalWith(dimB, s)

\* the PulsePad node Pad::pulsify has wired, and its state
WiredPad == puTarget[Len(puTarget)]

WiredPadState == puStates[Len(puTarget)]

\* the next eval of the PulsePad forwards nothing and executes
\* `if pulse_begin < op.begin_input`: it fills left padding
FillsLeft(st, op, known) ==
  LET pulse_begin == st.current_pos
      pulse_end == st.current_pos + op.pulse
      end_input == PulsePadEndInput(op, known)
  IN /\ ~(pulse_begin >= op.begin_input /\ pulse_end <= end_input)
     /\ ~(pulse_end <= op.begin_input - op.before \/ pulse_begin >= end_input + op.after)
     /\ pulse_begin < op.begin_input

\* fill_up_to in that eval
FillUpTo(st, op) == Min(op.begin_input - st.current_pos, op.pulse)

\* C28: for every Pad that pulsify accepts, the PulsePad has begin_input >=
\* before, so that the delay of its output fact, input.delay + extra_delay -
\* before, is not negative; in Edge mode begin_input mod pulse >= before, and
\* in every eval that fills left padding the pulse holds the first valid
\* frame: fill_up_to < pulse.
C28_LeftPaddingInPulse ==
  (puOp.kind = "Pad" /\ puResult \in {"ok", "panic"}) =>
    /\ WiredPad.op.kind = "PulsePad"
    /\ WiredPad.op.begin_input >= WiredPad.op.before
    /\ WiredPad.fact.delay = puFact.delay + PadExtraDelay(puOp, puFact) - WiredPad.op.before
    /\ WiredPad.fact.delay >= 0
    /\ WiredPad.op.mode = "Edge" =>
         /\ WiredPad.op.begin_input % WiredPad.op.pulse >= WiredPad.op.before
         /\ (puStates # "none" /\ FillsLeft(WiredPadState, WiredPad.op, puKnown))
            => FillUpTo(WiredPadState, WiredPad.op) < WiredPad.op.pulse

\* an Edge PulsePad that has forwarded a pulse is about to fill its left
\* padding in a later pulse, from a valid frame of that pulse
C28_Witness ==
  /\ puOp.kind = "Pad"
  /\ puOp.mode = "Edge"
  /\ puResult = "ok"
  /\ puStates # "none"
  /\ WiredPad.op.before > 0
  /\ WiredPadState.current_pos > 0
  /\ Len(puOut) = WiredPadState.current_pos
  /\ FillsLeft(WiredPadState, WiredPad.op, puKnown)
  /\ FillUpTo(WiredPadState, WiredPad.op) \in 1..(WiredPad.op.pulse - 1)

\* the two models have the same nodes with the same inputs, the same
\* consumers of every outlet (in whatever order the successors are listed),
\* the same inputs and outputs and the same labels
SameGraph(a, b) ==
  /\ Len(a.nodes) = Len(b.nodes)
  /\ \A n \in 1..Len(a.nodes) :
       /\ a.nodes[n].name = b.nodes[n].name
       /\ a.nodes[n].op = b.nodes[n].op
       /\ a.nodes[n].inputs = b.nodes[n].inputs
       /\ Len(a.nodes[n].outputs) = Len(b.nodes[n].outputs)
       /\ \A o \in 1..Len(a.nodes[n].outputs) :
            SeqToSet(a.nodes[n].outputs[o].successors) =
              SeqToSet(b.nodes[n].outputs[o].successors)
  /\ a.inputs = b.inputs
  /\ a.outputs = b.outputs
  /\ a.labels = b.labels

\* C29: an apply that succeeds leaves the same host whatever the order in
\* which the entries of shunt_outlet_by and the added nodes are processed:
\* every order gives the inputs, consumers, model outputs and labels that the
\* order taken has given.
C29_OrderIndependent ==
  (lastCall.op = "apply" /\ lastCall.status = "ok")
  => \A shunt_order \in Orders(lastCall.patch.shunt_outlet_by) :
       \A wire_order \in Orders(ApplyAllInputs(lastCall.patch, lastCall.before)) :
         LET r == Apply(lastCall.patch, lastCall.before, shunt_order, wire_order)
         IN r.status = "ok" /\ SameGraph(r.target, host)

\* the state-flagged outputs of a logged iteration, in order
StateOutputs(entry) ==
  LET flagged == {j \in 1..Len(scOp.output_mapping) : scOp.output_mapping[j].state}
  IN [k \in 1..Cardinality(flagged) |->
        entry.outputs[CHOOSE j \in flagged : Cardinality({l \in flagged : l < j}) = k - 1]]

\* the tensors the State inputs received in a logged iteration, in order
StateInputs(entry) ==
  LET states == {j \in 1..Len(scOp.input_mapping) : scOp.input_mapping[j].kind = "State"}
  IN [k \in 1..Cardinality(states) |->
        entry.inputs[CHOOSE j \in states : Cardinality({l \in states : l < j}) = k - 1]]

RECURSIVE TotalIters(_)
\* the iterations of the evals made, skipped ones included
TotalIters(inputs) ==
  IF inputs = <<>> THEN 0
  ELSE ScanIters(scOp, Head(inputs)) + TotalIters(Tail(inputs))

====
